---- MODULE Spec2Model ----
(***************************************************************************)
(* Token custody chaincode (chaincode/fabcar/go/fabcar.go) over a flat     *)
(* key-value world state.  The world state is the map of the stub the Go   *)
(* tests run against (mockStub: GetState reads the map, PutState writes it *)
(* at once).  Every record is stored as a JSON document; a handler decodes *)
(* whatever document it finds under a key into the struct it expects, so a *)
(* document is modelled by the values of all JSON members and decoding is  *)
(* the projection on the members the target struct declares.               *)
(* Decimal amounts (float64) are fixed-point integers counting units of    *)
(* 10^-7; the TransferIDs slices are never assigned by any handler (always *)
(* nil) and are left out.                                                  *)
(***************************************************************************)
EXTENDS Integers, Sequences, FiniteSets, TLC

VARIABLES ledger, nextUuid, last, pending

vars == <<ledger, nextUuid, last, pending>>

(***************************************************************************)
(* Bounds of the model.                                                    *)
(***************************************************************************)
MaxTransfers == 1
MaxMinted == 2
MaxAllocated == 2
MaxInFlight == 2

(* program constants *)
maxTokens == 25
FormatDecimals == 6
AdminMSP == "Org1MSP"

(* one unit = 10^-7: one digit more than "%f" keeps *)
Scale == 10000000

(***************************************************************************)
(* JSON documents.                                                         *)
(***************************************************************************)
ZeroDoc ==
  [kind |-> "json", num |-> 0,
   name |-> "", network_address |-> "", client_id |-> "", approved |-> FALSE,
   password_hash |-> "", country |-> "", token_id |-> "",
   owner |-> "", available |-> FALSE, minted |-> 0,
   request_id |-> "", network_addr |-> "", status |-> "", pincode |-> <<>>,
   requested_by |-> "", amount |-> 0, balance |-> 0,
   transfer_request_id |-> "", sender_transfer_id |-> "",
   receiver_transfer_id |-> "", sender_token_transfer_id |-> "",
   receiver_token_transfer_id |-> ""]

Nil == [kind |-> "nil"]

IsNil(b) == b.kind = "nil"

ParticipantFields ==
  {"name", "network_address", "client_id", "approved", "password_hash",
   "country", "token_id"}

TokenFields == {"token_id", "owner", "available", "minted"}

TokenRequestFields ==
  {"request_id", "network_addr", "status", "token_id", "pincode"}

MintRequestFields ==
  {"request_id", "token_id", "requested_by", "amount", "approved"}

CustomerFields ==
  {"network_address", "name", "password_hash", "token_id", "approved",
   "balance"}

RegisterCustomerRequestFields ==
  {"request_id", "network_address", "name", "password_hash", "token_id",
   "approved"}

TransferRequestFields ==
  {"transfer_request_id", "token_id", "amount", "sender_transfer_id",
   "receiver_transfer_id", "sender_token_transfer_id",
   "receiver_token_transfer_id", "status"}

(* json.Marshal of a struct: an object with exactly the members the       *)
(* struct declares                                                         *)
Marshal(fields, v) ==
  [f \in fields \cup {"kind"} |-> IF f = "kind" THEN "json" ELSE v[f]]

(* the struct value a handler holds after decoding: every member of every  *)
(* struct, the ones the target does not declare at their zero value        *)
Decoded(fields, b, skip) ==
  [f \in DOMAIN ZeroDoc |->
     IF f \in fields \ skip /\ f \in DOMAIN b THEN b[f] ELSE ZeroDoc[f]]

(* json.Unmarshal into a struct: members the struct declares are taken,    *)
(* the others ignored, absent ones stay zero; a bare number is an error    *)
(* and so is a fractional number for an int member (MintRequest.Amount),   *)
(* in which case the other members are still filled.                       *)
Unmarshal(fields, b) ==
  IF b.kind # "json" THEN [err |-> TRUE, v |-> ZeroDoc]
  ELSE IF "amount" \in fields /\ "requested_by" \in fields
          /\ "amount" \in DOMAIN b /\ b.amount % Scale # 0
       THEN [err |-> TRUE, v |-> Decoded(fields, b, {"amount"})]
       ELSE [err |-> FALSE, v |-> Decoded(fields, b, {})]

(* a bare numeric value, as written by fmt.Sprintf("%f", ...) *)
NumDoc(u) == [kind |-> "num", num |-> u]

(***************************************************************************)
(* The stub.                                                               *)
(***************************************************************************)
GetState(l, key) == IF key \in DOMAIN l THEN l[key] ELSE Nil

(* mutation: a key that already holds a value is not written again *)
PutState_KeepExisting(l, key, value) ==
  [k \in DOMAIN l \cup {key} |-> IF k \in DOMAIN l THEN l[k] ELSE value]

PutState(l, key, value) ==
  [k \in DOMAIN l \cup {key} |-> IF k = key THEN value ELSE l[k]]

Fail(l, msg) == [err |-> msg, st |-> l, ret |-> ""]

Ok(l, ret) == [err |-> "", st |-> l, ret |-> ret]

(***************************************************************************)
(* Token pool and participant registry.                                    *)
(***************************************************************************)
TokenKey(i) == "token_" \o ToString(i)

TokenKeys == {TokenKey(i) : i \in 1..maxTokens}

(* hex(sha256(name)): one-way and injective on the names used; the result  *)
(* is 64 hex digits, so it is never a key with a prefix                    *)
Sha256Hex(name) == "sha256:" \o name

NewToken(tid) ==
  Marshal(TokenFields,
          [ZeroDoc EXCEPT !.token_id = tid, !.owner = "", !.available = TRUE,
                          !.minted = 0])

InitLedger(l) ==
  Ok([k \in DOMAIN l \cup TokenKeys |->
        IF k \in TokenKeys THEN NewToken(k) ELSE l[k]], "")

(* mutation: an existing record is not noticed *)
ParticipantExists_Never(l, networkAddress) == FALSE

ParticipantExists(l, networkAddress) == ~IsNil(GetState(l, networkAddress))

SubmitRegistration(l, clientID, name, passwordHash, country) ==
  LET netAddr == Sha256Hex(name) IN
  IF ParticipantExists(l, netAddr) THEN Fail(l, "participant already exists")
  ELSE Ok(PutState(l, netAddr,
            Marshal(ParticipantFields,
                    [ZeroDoc EXCEPT !.name = name,
                                    !.network_address = netAddr,
                                    !.client_id = clientID,
                                    !.approved = FALSE,
                                    !.password_hash = passwordHash,
                                    !.country = country,
                                    !.token_id = ""])),
          netAddr)

(* mutation: every organization passes *)
VerifyAdmin_Anyone(msp) == ""

VerifyAdmin(msp) == IF msp # AdminMSP THEN "access denied: admin only" ELSE ""

RequestTokenRequest(l, name, networkAddress, passwordHash, country, pincode) ==
  LET b == GetState(l, networkAddress) IN
  IF IsNil(b) THEN Fail(l, "participant not found")
  ELSE LET u == Unmarshal(ParticipantFields, b)
           p == u.v
           reqID == "tokenrequest_" \o networkAddress
       IN IF u.err THEN Fail(l, "json: cannot unmarshal")
          ELSE IF p.name # name \/ p.password_hash # passwordHash
                  \/ p.country # country
               THEN Fail(l, "participant details do not match")
          ELSE IF Len(pincode) # 6
               THEN Fail(l, "invalid pincode: must be 6 digits")
          ELSE Ok(PutState(l, reqID,
                    Marshal(TokenRequestFields,
                            [ZeroDoc EXCEPT !.request_id = reqID,
                                            !.network_addr = networkAddress,
                                            !.status = "PENDING",
                                            !.token_id = "",
                                            !.pincode = pincode])), "")

(* the loop of findAvailableToken from index i on *)
RECURSIVE findAvailableTokenFrom(_, _)
findAvailableTokenFrom(l, i) ==
  IF i > maxTokens THEN [err |-> FALSE, tid |-> ""]
  ELSE LET tid == TokenKey(i)
           b == GetState(l, tid)
       IN IF IsNil(b) THEN findAvailableTokenFrom(l, i + 1)
          ELSE LET u == Unmarshal(TokenFields, b) IN
               IF u.err THEN [err |-> TRUE, tid |-> ""]
               ELSE IF u.v.available THEN [err |-> FALSE, tid |-> tid]
               ELSE findAvailableTokenFrom(l, i + 1)

(* mutation: a missing record is not skipped but taken as available *)
findAvailableToken_NoNilCheck(l) ==
  IF TokenKey(1) \notin DOMAIN l THEN [err |-> FALSE, tid |-> TokenKey(1)]
  ELSE findAvailableTokenFrom(l, 1)

findAvailableToken(l) == findAvailableTokenFrom(l, 1)

(* mutation: the owner is set but the token is left available *)
AssignToken_StaysAvailable(t, networkAddress) ==
  [t EXCEPT !.owner = networkAddress]

AssignToken(t, networkAddress) ==
  [t EXCEPT !.owner = networkAddress, !.available = FALSE]

ApproveTokenRequest(l, msp, networkAddress) ==
  LET reqID == "tokenrequest_" \o networkAddress
      rb == GetState(l, reqID)
  IN
  IF VerifyAdmin(msp) # "" THEN Fail(l, VerifyAdmin(msp))
  ELSE IF IsNil(rb) THEN Fail(l, "token request not found")
  ELSE
    LET r == Unmarshal(TokenRequestFields, rb).v IN
    IF r.status # "PENDING" THEN Fail(l, "request already processed")
    ELSE
      LET found == findAvailableToken(l)
          tokenID == found.tid
      IN
      IF found.err THEN Fail(l, "json: cannot unmarshal")
      ELSE IF tokenID = "" THEN Fail(l, "no tokens available")
      ELSE
        LET l1 == PutState(l, reqID,
                    Marshal(TokenRequestFields,
                            [r EXCEPT !.status = "APPROVED",
                                      !.token_id = tokenID]))
            pb == GetState(l1, networkAddress)
        IN
        IF IsNil(pb) THEN Fail(l1, "participant not found")
        ELSE
          LET p == Unmarshal(ParticipantFields, pb).v
              l2 == PutState(l1, networkAddress,
                      Marshal(ParticipantFields,
                              [p EXCEPT !.token_id = tokenID,
                                        !.approved = TRUE]))
              tb == GetState(l2, tokenID)
          IN
          IF IsNil(tb) THEN Fail(l2, "token not found")
          ELSE
            LET t == Unmarshal(TokenFields, tb).v IN
            Ok(PutState(l2, tokenID,
                 Marshal(TokenFields, AssignToken(t, networkAddress))), "")

(***************************************************************************)
(* Mint issuance.  An int amount n is the JSON number n, i.e. n * Scale    *)
(* units.                                                                  *)
(***************************************************************************)
AmountInt(r) == r.amount \div Scale

(* mutation: the owner of the token is not compared *)
IsTokenOwner_Unchecked(token, networkAddress) == TRUE

IsTokenOwner(token, networkAddress) == token.owner = networkAddress

RequestMintCoins(l, callerID, networkAddress, passwordHash, amount) ==
  LET partBytes == GetState(l, networkAddress) IN
  IF IsNil(partBytes) THEN Fail(l, "participant not found")
  ELSE
    LET u == Unmarshal(ParticipantFields, partBytes)
        participant == u.v
    IN
    IF u.err THEN Fail(l, "json: cannot unmarshal")
    ELSE IF participant.password_hash # passwordHash
         THEN Fail(l, "invalid password")
    ELSE IF participant.client_id # callerID THEN Fail(l, "unauthorized caller")
    ELSE
      LET tokenBytes == GetState(l, participant.token_id) IN
      IF IsNil(tokenBytes) THEN Fail(l, "token not found")
      ELSE
        LET ut == Unmarshal(TokenFields, tokenBytes)
            reqKey == "mintrequest_" \o participant.token_id \o "_"
                        \o networkAddress
        IN
        IF ut.err THEN Fail(l, "json: cannot unmarshal")
        ELSE IF ~IsTokenOwner(ut.v, networkAddress)
             THEN Fail(l, "caller is not token owner")
        ELSE Ok(PutState(l, reqKey,
                  Marshal(MintRequestFields,
                          [ZeroDoc EXCEPT !.request_id = reqKey,
                                          !.token_id = participant.token_id,
                                          !.requested_by = networkAddress,
                                          !.amount = amount * Scale,
                                          !.approved = FALSE])), "")

(* mutation: the pool is left as it was *)
CreditPool_Nothing(token, mr) == token

CreditPool(token, mr) == [token EXCEPT !.minted = token.minted + AmountInt(mr)]

ApproveMintRequest(l, msp, requestID) ==
  LET reqBytes == GetState(l, requestID) IN
  IF VerifyAdmin(msp) # "" THEN Fail(l, VerifyAdmin(msp))
  ELSE IF IsNil(reqBytes) THEN Fail(l, "mint request not found")
  ELSE
    LET u == Unmarshal(MintRequestFields, reqBytes)
        mr == u.v
    IN
    IF u.err THEN Fail(l, "json: cannot unmarshal")
    ELSE IF mr.approved THEN Fail(l, "mint request already approved")
    ELSE
      LET l1 == PutState(l, requestID,
                  Marshal(MintRequestFields, [mr EXCEPT !.approved = TRUE]))
          tokenBytes == GetState(l1, mr.token_id)
      IN
      IF IsNil(tokenBytes) THEN Fail(l1, "token not found")
      ELSE
        LET ut == Unmarshal(TokenFields, tokenBytes)
            token == ut.v
        IN
        IF ut.err THEN Fail(l1, "json: cannot unmarshal")
        ELSE Ok(PutState(l1, mr.token_id,
                  Marshal(TokenFields, CreditPool(token, mr))), "")

(***************************************************************************)
(* Customer sub-accounts.                                                  *)
(***************************************************************************)
(* mutation: the request key is built from the address alone *)
CustomerRequestID_AddressOnly(networkAddress, tokenID) ==
  "custreq_" \o networkAddress

CustomerRequestID(networkAddress, tokenID) ==
  "custreq_" \o networkAddress \o "_" \o tokenID

RegisterCustomer(l, networkAddress, name, passwordHash, tokenID) ==
  LET tokenBytes == GetState(l, tokenID)
      reqID == CustomerRequestID(networkAddress, tokenID)
  IN
  IF IsNil(tokenBytes) THEN Fail(l, "token not found")
  ELSE
    LET ut == Unmarshal(TokenFields, tokenBytes) IN
    IF ut.err \/ ut.v.owner = "" THEN Fail(l, "invalid or unowned token")
    ELSE IF ~IsNil(GetState(l, reqID))
         THEN Fail(l, "customer registration request already exists")
    ELSE Ok(PutState(l, reqID,
              Marshal(RegisterCustomerRequestFields,
                      [ZeroDoc EXCEPT !.request_id = reqID,
                                      !.network_address = networkAddress,
                                      !.name = name,
                                      !.password_hash = passwordHash,
                                      !.token_id = tokenID,
                                      !.approved = FALSE])), "")

(* mutation: the wallet opens with the zero value of every member but the  *)
(* address, so it is not approved and names no token                       *)
NewCustomer_AddressOnly(req) ==
  [ZeroDoc EXCEPT !.network_address = req.network_address]

NewCustomer(req) ==
  [ZeroDoc EXCEPT !.network_address = req.network_address,
                  !.name = req.name,
                  !.password_hash = req.password_hash,
                  !.token_id = req.token_id,
                  !.approved = TRUE,
                  !.balance = 0]

ApproveCustomerRegistration(l, requestID, ownerNetworkAddress) ==
  LET reqBytes == GetState(l, requestID) IN
  IF IsNil(reqBytes) THEN Fail(l, "customer registration request not found")
  ELSE
    LET u == Unmarshal(RegisterCustomerRequestFields, reqBytes)
        req == u.v
        tokenBytes == GetState(l, req.token_id)
    IN
    IF u.err THEN Fail(l, "json: cannot unmarshal")
    ELSE IF IsNil(tokenBytes) THEN Fail(l, "token not found")
    ELSE
      LET ut == Unmarshal(TokenFields, tokenBytes) IN
      IF ut.err THEN Fail(l, "json: cannot unmarshal")
      ELSE IF ut.v.owner # ownerNetworkAddress
           THEN Fail(l, "caller is not token owner")
      ELSE IF req.approved THEN Fail(l, "already approved")
      ELSE
        LET l1 == PutState(l, requestID,
                    Marshal(RegisterCustomerRequestFields,
                            [req EXCEPT !.approved = TRUE]))
            customerKey == "customer_" \o req.network_address \o "_"
                             \o req.token_id
        IN Ok(PutState(l1, customerKey, Marshal(CustomerFields, NewCustomer(req))),
              "")

CustomerRequestMint(l, networkAddress, tokenID, amount) ==
  LET customerKey == "customer_" \o networkAddress \o "_" \o tokenID
      customerBytes == GetState(l, customerKey)
  IN
  IF IsNil(customerBytes)
  THEN Fail(l, "customer not registered or approved for token")
  ELSE
    LET u == Unmarshal(CustomerFields, customerBytes)
        customer == u.v
        requestID == "custmintreq_" \o customer.network_address \o "_"
                       \o tokenID
    IN
    IF u.err THEN Fail(l, "json: cannot unmarshal")
    ELSE Ok(PutState(l, requestID,
              Marshal(MintRequestFields,
                      [ZeroDoc EXCEPT !.request_id = requestID,
                                      !.token_id = tokenID,
                                      !.requested_by = customer.network_address,
                                      !.amount = amount * Scale,
                                      !.approved = FALSE])), "")

(* mutation: the pool is never found too small *)
InsufficientPool_Never(token, mintReq) == FALSE

InsufficientPool(token, mintReq) == token.minted < AmountInt(mintReq)

ApproveCustomerMint(l, requestID, ownerNetworkAddress) ==
  LET reqBytes == GetState(l, requestID) IN
  IF IsNil(reqBytes) THEN Fail(l, "mint request not found")
  ELSE
    LET u == Unmarshal(MintRequestFields, reqBytes)
        mintReq == u.v
        tokenBytes == GetState(l, mintReq.token_id)
    IN
    IF u.err THEN Fail(l, "json: cannot unmarshal")
    ELSE IF IsNil(tokenBytes) THEN Fail(l, "token not found")
    ELSE
      LET ut == Unmarshal(TokenFields, tokenBytes)
          token == ut.v
      IN
      IF ut.err THEN Fail(l, "json: cannot unmarshal")
      ELSE IF token.owner # ownerNetworkAddress
           THEN Fail(l, "caller is not token owner")
      ELSE IF mintReq.approved THEN Fail(l, "mint request already approved")
      ELSE IF InsufficientPool(token, mintReq)
           THEN Fail(l, "insufficient minted coin balance on token")
      ELSE
        LET l1 == PutState(l, requestID,
                    Marshal(MintRequestFields,
                            [mintReq EXCEPT !.approved = TRUE]))
            l2 == PutState(l1, mintReq.token_id,
                    Marshal(TokenFields,
                            [token EXCEPT !.minted = token.minted
                                                       - AmountInt(mintReq)]))
            customerKey == "customer_" \o mintReq.requested_by \o "_"
                             \o mintReq.token_id
            custBytes == GetState(l2, customerKey)
        IN
        IF IsNil(custBytes) THEN Fail(l2, "customer not found")
        ELSE
          LET uc == Unmarshal(CustomerFields, custBytes)
              cust == uc.v
          IN
          IF uc.err THEN Fail(l2, "json: cannot unmarshal")
          ELSE Ok(PutState(l2, customerKey,
                    Marshal(CustomerFields,
                            [cust EXCEPT !.balance = cust.balance
                                                       + AmountInt(mintReq)])),
                  "")

(***************************************************************************)
(* Decimal conversions.  A decimal string is the sequence of its           *)
(* characters.                                                             *)
(***************************************************************************)
DigitChars == {"0", "1", "2", "3", "4", "5", "6", "7", "8", "9"}

DigitVal(c) ==
  CASE c = "0" -> 0 [] c = "1" -> 1 [] c = "2" -> 2 [] c = "3" -> 3
    [] c = "4" -> 4 [] c = "5" -> 5 [] c = "6" -> 6 [] c = "7" -> 7
    [] c = "8" -> 8 [] c = "9" -> 9

AllDigits(s) == \A i \in 1..Len(s) : s[i] \in DigitChars

RECURSIVE DigitsValue(_)
DigitsValue(s) ==
  IF Len(s) = 0 THEN 0
  ELSE DigitsValue(SubSeq(s, 1, Len(s) - 1)) * 10 + DigitVal(s[Len(s)])

(* strconv.ParseFloat(s, 64) on plain decimal notation (optional sign,     *)
(* digits, optional point and digits) and on "NaN"; the value in units of  *)
(* 1/Scale.  Exponents, hex floats and infinities are outside the inputs   *)
(* used, which carry at most seven fractional digits.  (Mutation           *)
(* ParseFloat_NeverFails: every string parses, as zero.)                   *)
ParseFloat_NeverFails(s) == [err |-> FALSE, nan |-> FALSE, val |-> 0]

ParseFloat(s) ==
  LET signed == Len(s) > 0 /\ s[1] \in {"-", "+"}
      body == IF signed THEN SubSeq(s, 2, Len(s)) ELSE s
      dots == {i \in 1..Len(body) : body[i] = "."}
      dot == IF dots = {} THEN Len(body) + 1
             ELSE CHOOSE i \in dots : \A j \in dots : i <= j
      ip == SubSeq(body, 1, dot - 1)
      fp == SubSeq(body, dot + 1, Len(body))
      fp7 == SubSeq(fp, 1, IF Len(fp) < 7 THEN Len(fp) ELSE 7)
      mag == DigitsValue(ip) * Scale + DigitsValue(fp7) * 10 ^ (7 - Len(fp7))
  IN
  IF s = <<"N", "a", "N">> THEN [err |-> FALSE, nan |-> TRUE, val |-> 0]
  ELSE IF Len(ip) + Len(fp) = 0 \/ ~AllDigits(ip) \/ ~AllDigits(fp)
       THEN [err |-> TRUE, nan |-> FALSE, val |-> 0]
  ELSE [err |-> FALSE, nan |-> FALSE,
        val |-> IF signed /\ s[1] = "-" THEN -mag ELSE mag]

(* fmt.Sprintf("%f", x): x rounded to FormatDecimals decimals, ties to even *)
FormatStep == Scale \div 10 ^ FormatDecimals

FormatF(x) ==
  LET q == x \div FormatStep
      r == x % FormatStep
  IN IF 2 * r > FormatStep \/ (2 * r = FormatStep /\ q % 2 = 1)
     THEN (q + 1) * FormatStep
     ELSE q * FormatStep

(* int(x) of a float64: the fraction is dropped (toward zero) *)
FloatToInt(x) == IF x >= 0 THEN x \div Scale ELSE -((-x) \div Scale)

(* mutation: a stored JSON object is taken as the number zero *)
ParseStoredFloat_ObjectAsZero(b) ==
  [err |-> FALSE, val |-> IF b.kind = "num" THEN b.num ELSE 0]

(* strconv.ParseFloat(string(bytes), 64) of a stored value: only a bare    *)
(* number parses, a JSON object does not                                   *)
ParseStoredFloat(b) ==
  IF b.kind = "num" THEN [err |-> FALSE, val |-> b.num]
  ELSE [err |-> TRUE, val |-> 0]

(***************************************************************************)
(* Transfer protocol.                                                      *)
(***************************************************************************)
CreateTransferRequest(l, uuid, senderParticipantID, receiverParticipantID, senderTokenTransferID, receiverTokenTransferID, tokenID, amountStr) ==
  LET parsed == ParseFloat(amountStr)
      transferRequestID == "transfer_" \o uuid
  IN
  IF parsed.err THEN Fail(l, "invalid amount")
  ELSE IF parsed.nan THEN Fail(l, "json: unsupported value: NaN")
  ELSE Ok(PutState(l, transferRequestID,
            Marshal(TransferRequestFields,
                    [ZeroDoc EXCEPT
                       !.transfer_request_id = transferRequestID,
                       !.token_id = tokenID,
                       !.amount = parsed.val,
                       !.sender_transfer_id = senderParticipantID,
                       !.receiver_transfer_id = receiverParticipantID,
                       !.sender_token_transfer_id = senderTokenTransferID,
                       !.receiver_token_transfer_id = receiverTokenTransferID,
                       !.status = "PendingOwnerApproval"])),
          transferRequestID)

(* mutation: the approver is not compared with the stored sender *)
OwnerAuthorised_Unchecked(request, approver) == TRUE

OwnerAuthorised(request, approver) == request.sender_transfer_id = approver

ApproveTransferByOwner(l, transferRequestID, approver) ==
  LET reqBytes == GetState(l, transferRequestID) IN
  IF IsNil(reqBytes) THEN Fail(l, "transfer request not found")
  ELSE
    LET u == Unmarshal(TransferRequestFields, reqBytes)
        request == u.v
    IN
    IF u.err THEN Fail(l, "json: cannot unmarshal")
    ELSE IF request.status # "PendingOwnerApproval"
         THEN Fail(l, "transfer request not pending owner approval")
    ELSE IF ~OwnerAuthorised(request, approver)
         THEN Fail(l, "approver is not the sender participant")
    ELSE Ok(PutState(l, transferRequestID,
              Marshal(TransferRequestFields,
                      [request EXCEPT !.status = "PendingReceiverApproval"])),
            "")

(* The handler as the contract API calls it: the transaction context       *)
(* carries the caller's identity and organization; the body takes only the *)
(* stub from it.  (Mutation: the caller's organization is verified first.) *)
InvokeApproveTransferByOwner_AdminOnly(l, callerID, msp, transferRequestID, approver) ==
  IF VerifyAdmin(msp) # "" THEN Fail(l, VerifyAdmin(msp))
  ELSE ApproveTransferByOwner(l, transferRequestID, approver)

InvokeApproveTransferByOwner(l, callerID, msp, transferRequestID, approver) ==
  ApproveTransferByOwner(l, transferRequestID, approver)

(* mutation: the approver is compared with the receiver recorded at       *)
(* creation instead of the token's owner                                   *)
ReceiverAuthorised_ByRecordedReceiver(token, request, approver) ==
  request.receiver_transfer_id = approver

ReceiverAuthorised(token, request, approver) == token.owner = approver

(* mutation: the rejection is reported without being written *)
RejectTransfer_NotWritten(l, transferRequestID, request) ==
  Fail(l, "insufficient funds for transfer")

(* the insufficient-funds branch: the status is written, then the error    *)
(* is returned                                                             *)
RejectTransfer(l, transferRequestID, request) ==
  Fail(PutState(l, transferRequestID,
         Marshal(TransferRequestFields, [request EXCEPT !.status = "Rejected"])),
       "insufficient funds for transfer")

ApproveTransferByReceiver(l, transferRequestID, approver) ==
  LET reqBytes == GetState(l, transferRequestID) IN
  IF IsNil(reqBytes) THEN Fail(l, "transfer request not found")
  ELSE
    LET u == Unmarshal(TransferRequestFields, reqBytes)
        request == u.v
        tokenBytes == GetState(l, request.token_id)
    IN
    IF u.err THEN Fail(l, "json: cannot unmarshal")
    ELSE IF request.status # "PendingReceiverApproval"
         THEN Fail(l, "transfer request not pending receiver approval")
    ELSE IF IsNil(tokenBytes) THEN Fail(l, "token not found")
    ELSE
      LET ut == Unmarshal(TokenFields, tokenBytes)
          token == ut.v
          senderBalBytes == GetState(l, request.sender_transfer_id)
          sb == ParseStoredFloat(senderBalBytes)
      IN
      IF ut.err THEN Fail(l, "json: cannot unmarshal")
      ELSE IF ~ReceiverAuthorised(token, request, approver)
           THEN Fail(l, "approver is not the token owner (receiver)")
      ELSE IF IsNil(senderBalBytes) THEN Fail(l, "sender balance not found")
      ELSE IF sb.err THEN Fail(l, "invalid sender balance")
      ELSE IF sb.val < request.amount
           THEN RejectTransfer(l, transferRequestID, request)
      ELSE
        LET l1 == PutState(l, request.sender_transfer_id,
                    NumDoc(FormatF(sb.val - request.amount)))
            l2 == PutState(l1, request.token_id,
                    Marshal(TokenFields,
                            [token EXCEPT !.minted = token.minted
                                              + FloatToInt(request.amount)]))
        IN Ok(PutState(l2, transferRequestID,
                Marshal(TransferRequestFields,
                        [request EXCEPT !.status = "Completed"])), "")

(***************************************************************************)
(* Inputs the callers supply.                                              *)
(***************************************************************************)
Names == {"Alice", "Bob"}

Addresses == {Sha256Hex(n) : n \in Names}

ClientIDs == {"x509::user1", "x509::user2"}

RegistrantIDs == {"x509::user1"}

MSPs == {"Org1MSP", "Org2MSP"}

RegPassword == "h1"

RegCountry == "US"

Passwords == {RegPassword, "h2"}

Countries == {RegCountry, "UK"}

(* <<name, passwordHash, country>> as passed to RequestTokenRequest: the   *)
(* registered details, a wrong password hash, and all three empty          *)
Credentials ==
  {<<n, RegPassword, RegCountry>> : n \in Names}
    \cup {<<"Alice", "", RegCountry>>, <<"", "", "">>}

(* the code sent with a token request, as the sequence of its characters:   *)
(* six digits and five digits, and six characters that are not all digits  *)
SixDigitCode == <<"1", "2", "3", "4", "5", "6">>

Pincodes == {SixDigitCode, <<"1", "2", "3", "4", "5">>}

AllPincodes == Pincodes \cup {<<"1", "2", "3", "4", "5", "a">>}

(* keys of other record types passed where an address is expected *)
ForeignKeys == {"token_2"}

AddressArgs == Addresses \cup ForeignKeys

UuidOf(n) == ToString(n)

TransferKeys == {"transfer_" \o UuidOf(n) : n \in 1..MaxTransfers}

(* the guards that keep counters within the bounds *)
Member(b, f) == IF f \in DOMAIN b THEN b[f] ELSE ZeroDoc[f]

Bounded(l) ==
  /\ \A k \in DOMAIN l :
       /\ Member(l[k], "minted") \in -MaxMinted..MaxMinted
       /\ Member(l[k], "balance") \in -MaxMinted..MaxMinted
  /\ Cardinality({k \in DOMAIN l \cap TokenKeys :
                    Member(l[k], "owner") # ""}) <= MaxAllocated

(***************************************************************************)
(* The world state of a fresh stub (NewTestHelper).                        *)
(***************************************************************************)
EmptyState == [k \in {} |-> Nil]

Init ==
  /\ ledger = EmptyState
  /\ nextUuid = 1
  /\ last = [op |-> "", arg |-> "", err |-> ""]
  /\ pending = {}

(* The state a call leaves behind: the writes a handler issued stay in the  *)
(* map whether or not it then returns an error.  Recorded(op, r) is the    *)
(* note of the call kept for the properties.                               *)
Recorded(op, arg, r) == [op |-> op, arg |-> arg, err |-> r.err]

InitLedgerAct ==
  LET r == InitLedger(ledger) IN
  /\ Bounded(r.st)
  /\ ledger' = r.st
  /\ last' = Recorded("InitLedger", "", r)
  /\ UNCHANGED <<nextUuid, pending>>

SubmitRegistrationAct(names) ==
  \E c \in RegistrantIDs, n \in names :
    LET r == SubmitRegistration(ledger, c, n, RegPassword, RegCountry) IN
    /\ Bounded(r.st)
    /\ ledger' = r.st
    /\ last' = Recorded("SubmitRegistration", "", r)
    /\ UNCHANGED <<nextUuid, pending>>

RequestTokenRequestAct(creds, addrs, pins) ==
  \E cr \in creds, a \in addrs, pin \in pins :
    LET r == RequestTokenRequest(ledger, cr[1], a, cr[2], cr[3], pin) IN
    /\ Bounded(r.st)
    /\ ledger' = r.st
    /\ last' = Recorded("RequestTokenRequest", "", r)
    /\ UNCHANGED <<nextUuid, pending>>

ApproveTokenRequestAct(addrs) ==
  \E msp \in MSPs, a \in addrs :
    LET r == ApproveTokenRequest(ledger, msp, a) IN
    /\ Bounded(r.st)
    /\ ledger' = r.st
    /\ last' = Recorded("ApproveTokenRequest", a, r)
    /\ UNCHANGED <<nextUuid, pending>>

Next ==
  \/ InitLedgerAct
  \/ SubmitRegistrationAct(Names)
  \/ RequestTokenRequestAct(Credentials, AddressArgs, Pincodes)
  \/ ApproveTokenRequestAct(AddressArgs)

Spec == Init /\ [][Next]_vars

(***************************************************************************)
(* The transfer protocol, on a world state in which a scenario has seeded  *)
(* bare balance records (as the tests' setupState seeds records), next to  *)
(* the allocation of a token to one participant and an admin approving a   *)
(* transfer key as if it were a mint request.                              *)
(***************************************************************************)
BalanceKeys == {"acct_1"}

(* 1.5 *)
SeedBalances == {3 * (Scale \div 2)}

SenderRefs == BalanceKeys

ReceiverRefs == {"acct_2"}

TransferTokens == {TokenKey(1)}

AmountStrings ==
  {<<"2">>, <<"1", ".", "5">>, <<"0", ".", "0", "0", "0", "0", "0", "0", "4">>,
   <<"-", "1", ".", "5">>, <<"a", "b", "c">>, <<"N", "a", "N">>}

TransferNames == {"Alice"}

TransferAddresses == {Sha256Hex(n) : n \in TransferNames}

TransferCredentials == {<<n, RegPassword, RegCountry>> : n \in TransferNames}

ApproverArgs == SenderRefs \cup ReceiverRefs \cup TransferAddresses \cup {""}

TransferIdArgs == TransferKeys

SeededState(seed) == [k \in DOMAIN seed |-> NumDoc(seed[k])]

InitTransfer ==
  /\ \E ks \in SUBSET BalanceKeys :
       \E seed \in [ks -> SeedBalances] : ledger = SeededState(seed)
  /\ nextUuid = 1
  /\ last = [op |-> "", arg |-> "", err |-> ""]
  /\ pending = {}

ApproveMintRequestAct(ids) ==
  \E msp \in MSPs, id \in ids :
    LET r == ApproveMintRequest(ledger, msp, id) IN
    /\ Bounded(r.st)
    /\ ledger' = r.st
    /\ last' = Recorded("ApproveMintRequest", "", r)
    /\ UNCHANGED <<nextUuid, pending>>

CreateTransferRequestAct(senders, tokens) ==
  \E sender \in senders, receiver \in ReceiverRefs, tid \in tokens,
     amt \in AmountStrings :
    LET r == CreateTransferRequest(ledger, UuidOf(nextUuid), sender, receiver,
                                   "", "", tid, amt)
    IN
    /\ nextUuid <= MaxTransfers
    /\ Bounded(r.st)
    /\ ledger' = r.st
    /\ nextUuid' = IF r.err = "" THEN nextUuid + 1 ELSE nextUuid
    /\ last' = Recorded("CreateTransferRequest", "", r)
    /\ UNCHANGED pending

(* the call is made by an identity that registered nobody, from an         *)
(* organization that is not the admin's                                    *)
ApproveTransferByOwnerAct ==
  \E c \in ClientIDs \ RegistrantIDs, msp \in MSPs \ {AdminMSP}, id \in TransferIdArgs, approver \in ApproverArgs :
    LET r == InvokeApproveTransferByOwner(ledger, c, msp, id, approver) IN
    /\ Bounded(r.st)
    /\ ledger' = r.st
    /\ last' = Recorded("ApproveTransferByOwner", "", r)
    /\ UNCHANGED <<nextUuid, pending>>

ApproveTransferByReceiverAct ==
  \E id \in TransferIdArgs, approver \in ApproverArgs :
    LET r == ApproveTransferByReceiver(ledger, id, approver) IN
    /\ Bounded(r.st)
    /\ ledger' = r.st
    /\ last' = Recorded("ApproveTransferByReceiver", approver, r)
    /\ UNCHANGED <<nextUuid, pending>>

NextTransfer ==
  \/ InitLedgerAct
  \/ SubmitRegistrationAct(TransferNames)
  \/ RequestTokenRequestAct(TransferCredentials, TransferAddresses, {SixDigitCode})
  \/ ApproveTokenRequestAct(TransferAddresses)
  \/ ApproveMintRequestAct(TransferKeys)
  \/ CreateTransferRequestAct(SenderRefs, TransferTokens)
  \/ ApproveTransferByOwnerAct
  \/ ApproveTransferByReceiverAct

SpecTransfer == InitTransfer /\ [][NextTransfer]_vars

(***************************************************************************)
(* Concurrent approvals on the ledger of section 5: a transaction is       *)
(* simulated against the committed state, giving the keys it read and the  *)
(* values it wrote, and is committed later unless a key it read has been   *)
(* written by a transaction committed in between.  A simulation that       *)
(* returns an error submits nothing.  The pool is initialised once, when   *)
(* the chaincode is deployed.                                              *)
(***************************************************************************)
(* the keys ApproveTokenRequest passes to GetState: the request, the token *)
(* keys findAvailableToken visits up to the one it returns, the            *)
(* participant and the token                                               *)
ApproveTokenRequestReads(l, networkAddress) ==
  LET tokenID == findAvailableToken(l).tid
      visited == {TokenKey(i) : i \in {j \in 1..maxTokens :
                    tokenID = "" \/ \E n \in j..maxTokens : TokenKey(n) = tokenID}}
  IN {"tokenrequest_" \o networkAddress, networkAddress} \cup visited

(* the keys ApproveTokenRequest passes to PutState when it succeeds *)
ApproveTokenRequestWrites(l, networkAddress) ==
  {"tokenrequest_" \o networkAddress, networkAddress, findAvailableToken(l).tid}

(* pending transactions that read a key just written are no longer valid *)
Invalidated(txs, written) ==
  {[tx EXCEPT !.stale = tx.stale \/ (tx.reads \cap written # {})] : tx \in txs}

InitMVCC ==
  /\ ledger = InitLedger(EmptyState).st
  /\ nextUuid = 1
  /\ last = [op |-> "", arg |-> "", err |-> ""]
  /\ pending = {}

MvccSubmitRegistrationAct ==
  \E c \in RegistrantIDs, n \in Names :
    LET r == SubmitRegistration(ledger, c, n, RegPassword, RegCountry) IN
    /\ ledger' = r.st
    /\ pending' = IF r.err = "" THEN Invalidated(pending, {Sha256Hex(n)})
                  ELSE pending
    /\ last' = Recorded("SubmitRegistration", "", r)
    /\ UNCHANGED nextUuid

MvccRequestTokenRequestAct ==
  \E cr \in Credentials, a \in Addresses, pin \in Pincodes :
    LET r == RequestTokenRequest(ledger, cr[1], a, cr[2], cr[3], pin) IN
    /\ Bounded(r.st)
    /\ ledger' = r.st
    /\ pending' = IF r.err = ""
                  THEN Invalidated(pending, {"tokenrequest_" \o a})
                  ELSE pending
    /\ last' = Recorded("RequestTokenRequest", "", r)
    /\ UNCHANGED nextUuid

SimulateApproveAct ==
  \E a \in Addresses :
    LET r == ApproveTokenRequest(ledger, AdminMSP, a)
        written == ApproveTokenRequestWrites(ledger, a)
    IN
    /\ Cardinality(pending) < MaxInFlight
    /\ r.err = ""
    /\ Bounded(r.st)
    /\ pending' = pending \cup
                    {[addr |-> a,
                      tid |-> findAvailableToken(ledger).tid,
                      reads |-> ApproveTokenRequestReads(ledger, a),
                      writes |-> [k \in written |-> r.st[k]],
                      stale |-> FALSE]}
    /\ last' = [op |-> "SimulateApprove", arg |-> a, err |-> ""]
    /\ UNCHANGED <<ledger, nextUuid>>

CommitAct ==
  \E tx \in pending :
    /\ ledger' = IF tx.stale THEN ledger
                 ELSE [k \in DOMAIN ledger \cup DOMAIN tx.writes |->
                         IF k \in DOMAIN tx.writes THEN tx.writes[k]
                         ELSE ledger[k]]
    /\ pending' = IF tx.stale THEN pending \ {tx}
                  ELSE Invalidated(pending \ {tx}, DOMAIN tx.writes)
    /\ last' = [op |-> "Commit", arg |-> tx.addr,
                err |-> IF tx.stale THEN "MVCC_READ_CONFLICT" ELSE ""]
    /\ UNCHANGED nextUuid

NextMVCC ==
  \/ MvccSubmitRegistrationAct
  \/ MvccRequestTokenRequestAct
  \/ SimulateApproveAct
  \/ CommitAct

SpecMVCC == InitMVCC /\ [][NextMVCC]_vars

(***************************************************************************)
(* Views of the world state used by the properties.                        *)
(***************************************************************************)
AsToken(l, k) == Unmarshal(TokenFields, GetState(l, k)).v

AsParticipant(l, k) == Unmarshal(ParticipantFields, GetState(l, k)).v

AsTokenRequest(l, a) ==
  Unmarshal(TokenRequestFields, GetState(l, "tokenrequest_" \o a)).v

AvailableIndexes(l) ==
  {i \in 1..maxTokens :
     TokenKey(i) \in DOMAIN l /\ AsToken(l, TokenKey(i)).available}

LowestAvailable(l) ==
  TokenKey(CHOOSE i \in AvailableIndexes(l) :
             \A j \in AvailableIndexes(l) : i <= j)

PoolInitialised == TokenKeys \subseteq DOMAIN ledger

(* C1: once InitLedger has run, each of the maxTokens token records is     *)
(* either available with an empty owner or unavailable with a non-empty    *)
(* owner, so the available and the owned tokens add up to maxTokens.       *)
C1_PoolConserved ==
  PoolInitialised =>
    /\ \A k \in TokenKeys :
         \/ AsToken(ledger, k).available /\ AsToken(ledger, k).owner = ""
         \/ ~AsToken(ledger, k).available /\ AsToken(ledger, k).owner # ""
    /\ Cardinality({k \in TokenKeys : AsToken(ledger, k).available})
         + Cardinality({k \in TokenKeys : AsToken(ledger, k).owner # ""})
       = maxTokens

(* C2: no two distinct registered participants hold the same non-empty     *)
(* token id.                                                               *)
C2_NoSharedToken ==
  \A a, b \in Addresses \cap DOMAIN ledger :
    (a # b /\ AsParticipant(ledger, a).token_id # "")
      => AsParticipant(ledger, a).token_id # AsParticipant(ledger, b).token_id

(* C3: a successful ApproveTokenRequest(address) by an admin takes the     *)
(* lowest-indexed available token t, leaves the request APPROVED with t,   *)
(* the participant at address with token id t and approved, the token t    *)
(* owned by address and unavailable, and changes nothing else.             *)
C3_ApproveAllocatesLowest ==
  \A a \in AddressArgs :
    LET r == ApproveTokenRequest(ledger, AdminMSP, a)
        t == LowestAvailable(ledger)
        reqID == "tokenrequest_" \o a
    IN r.err = "" =>
         /\ AvailableIndexes(ledger) # {}
         /\ DOMAIN r.st = DOMAIN ledger
         /\ r.st[reqID] = [ledger[reqID] EXCEPT !.status = "APPROVED",
                                                !.token_id = t]
         /\ AsParticipant(r.st, a).token_id = t
         /\ AsParticipant(r.st, a).approved
         /\ AsToken(r.st, t).owner = a
         /\ ~AsToken(r.st, t).available
         /\ AsToken(r.st, t).minted = AsToken(ledger, t).minted
         /\ \A k \in DOMAIN ledger \ {reqID, a, t} : r.st[k] = ledger[k]
         /\ \A k \in (TokenKeys \cap DOMAIN ledger) \ {t} : r.st[k] = ledger[k]

C5_OneApprovalCommits ==
  /\ \A p, q \in pending :
       (p.addr # q.addr /\ p.tid = q.tid /\ ~p.stale)
         => DOMAIN p.writes \cap q.reads # {}
  /\ \A a, b \in Addresses \cap DOMAIN ledger :
       (a # b /\ AsParticipant(ledger, a).token_id # "")
         => AsParticipant(ledger, a).token_id # AsParticipant(ledger, b).token_id
  /\ \A a \in Addresses \cap DOMAIN ledger :
       AsParticipant(ledger, a).token_id # ""
         => AsToken(ledger, AsParticipant(ledger, a).token_id).owner = a

C5_Witness ==
  /\ last.op = "Commit"
  /\ last.err = "MVCC_READ_CONFLICT"
  /\ AsTokenRequest(ledger, last.arg).status = "PENDING"
  /\ AsParticipant(ledger, last.arg).token_id = ""
  /\ \E a \in Addresses \ {last.arg} :
       /\ AsParticipant(ledger, a).token_id = TokenKey(1)
       /\ AsToken(ledger, TokenKey(1)).owner = a

(***************************************************************************)
(* Transfer protocol properties.                                           *)
(***************************************************************************)
Status(l, k) == Member(GetState(l, k), "status")

AsTransfer(l, k) == Unmarshal(TransferRequestFields, GetState(l, k)).v

TransferStep(s, t) ==
  \/ s = t
  \/ <<s, t>> \in {<<"PendingOwnerApproval", "PendingReceiverApproval">>,
                   <<"PendingReceiverApproval", "Completed">>,
                   <<"PendingReceiverApproval", "Rejected">>}

(* the integer n nearest to zero with |n| <= |x| < |n| + 1, x in units *)
TruncatedTowardZero(x) ==
  LET m == IF x >= 0 THEN x ELSE -x
      n == CHOOSE i \in 0..(MaxMinted + 2) : i * Scale <= m /\ m < (i + 1) * Scale
  IN IF x >= 0 THEN n ELSE -n

(* the case of C8, C9: the call is made by the owner of the transfer's    *)
(* token on a PendingReceiverApproval request whose sender has a balance   *)
ReceiverCase(l, id, approver) ==
  /\ id \in DOMAIN l
  /\ Status(l, id) = "PendingReceiverApproval"
  /\ AsTransfer(l, id).token_id \in DOMAIN l
  /\ l[AsTransfer(l, id).token_id].kind = "json"
  /\ AsToken(l, AsTransfer(l, id).token_id).owner = approver
  /\ AsTransfer(l, id).sender_transfer_id \in DOMAIN l
  /\ l[AsTransfer(l, id).sender_transfer_id].kind = "num"

SenderBalance(l, id) == l[AsTransfer(l, id).sender_transfer_id].num

(* C6: the status of a transfer request only moves PendingOwnerApproval -> *)
(* PendingReceiverApproval -> Completed or Rejected, and on a Completed or *)
(* Rejected request both approval calls fail and change nothing.           *)
C6_StatusChain ==
  /\ [][\A k \in TransferKeys \cap DOMAIN ledger :
          /\ k \in DOMAIN ledger'
          /\ TransferStep(Status(ledger, k), Status(ledger', k))]_vars
  /\ [](\A k \in TransferKeys \cap DOMAIN ledger, ap \in ApproverArgs :
          Status(ledger, k) \in {"Completed", "Rejected"} =>
            /\ ApproveTransferByOwner(ledger, k, ap).err # ""
            /\ ApproveTransferByOwner(ledger, k, ap).st = ledger
            /\ ApproveTransferByReceiver(ledger, k, ap).err # ""
            /\ ApproveTransferByReceiver(ledger, k, ap).st = ledger)

(* C7: ApproveTransferByOwner(id, approver) succeeds exactly when a record *)
(* exists at id with status PendingOwnerApproval and stored sender equal   *)
(* to approver; on success only that status changes, to                    *)
(* PendingReceiverApproval; on failure nothing changes.                    *)
C7_OwnerApproval ==
  \A id \in DOMAIN ledger \cup TransferKeys, ap \in ApproverArgs :
    LET r == ApproveTransferByOwner(ledger, id, ap)
        expected == /\ id \in DOMAIN ledger
                    /\ Status(ledger, id) = "PendingOwnerApproval"
                    /\ Member(ledger[id], "sender_transfer_id") = ap
    IN /\ (r.err = "") <=> expected
       /\ r.err = "" =>
            r.st = [ledger EXCEPT ![id].status = "PendingReceiverApproval"]
       /\ r.err # "" => r.st = ledger

C7_Witness ==
  /\ last.op = "ApproveTransferByOwner"
  /\ last.err = ""
  /\ \E k \in TransferKeys \cap DOMAIN ledger :
       Status(ledger, k) = "PendingReceiverApproval"

(* C8: called by the token's owner on a PendingReceiverApproval request    *)
(* whose amount exceeds the sender balance, ApproveTransferByReceiver      *)
(* reports insufficient funds and the state it leaves is the old one with  *)
(* that request Rejected: balance record and token are untouched.          *)
C8_RejectedKept ==
  /\ [](\A id \in TransferKeys, ap \in ApproverArgs :
          (ReceiverCase(ledger, id, ap)
             /\ AsTransfer(ledger, id).amount > SenderBalance(ledger, id))
          => LET r == ApproveTransferByReceiver(ledger, id, ap) IN
             /\ r.err = "insufficient funds for transfer"
             /\ r.st = [ledger EXCEPT ![id].status = "Rejected"])
  /\ [][(last'.op = "ApproveTransferByReceiver"
           /\ last'.err = "insufficient funds for transfer")
          => \E id \in TransferKeys \cap DOMAIN ledger :
               /\ Status(ledger, id) = "PendingReceiverApproval"
               /\ ledger' = [ledger EXCEPT ![id].status = "Rejected"]]_vars

C8_Witness ==
  /\ last.op = "ApproveTransferByReceiver"
  /\ last.err = "insufficient funds for transfer"
  /\ \E k \in TransferKeys \cap DOMAIN ledger :
       /\ Status(ledger, k) = "Rejected"
       /\ AsTransfer(ledger, k).sender_transfer_id \in DOMAIN ledger
       /\ AsTransfer(ledger, k).amount > SenderBalance(ledger, k)

(* C9: called by the participant owning the token on a                     *)
(* PendingReceiverApproval request whose amount A is at most the sender    *)
(* balance B, the request becomes                                          *)
(* Completed, the balance record becomes B - A and the token's mint pool   *)
(* grows by A truncated toward zero.                                       *)
C9_CompletedDebits ==
  \A id \in TransferKeys, ap \in ApproverArgs :
    (ReceiverCase(ledger, id, ap)
       /\ ap # ""
       /\ AsTransfer(ledger, id).amount <= SenderBalance(ledger, id))
    => LET r == ApproveTransferByReceiver(ledger, id, ap)
           t == AsTransfer(ledger, id)
       IN /\ r.err = ""
          /\ Status(r.st, id) = "Completed"
          /\ r.st[t.sender_transfer_id].kind = "num"
          /\ r.st[t.sender_transfer_id].num = SenderBalance(ledger, id) - t.amount
          /\ AsToken(r.st, t.token_id).minted
               = AsToken(ledger, t.token_id).minted + TruncatedTowardZero(t.amount)

(* C10: ApproveTransferByReceiver succeeds, or changes anything, only if   *)
(* approver is the owner stored on the transfer's token at the call,       *)
(* whatever receiver the request records; with another approver on a       *)
(* PendingReceiverApproval request it fails and changes nothing.           *)
C10_ReceiverIsTokenOwner ==
  \A id \in TransferKeys, ap \in ApproverArgs :
    LET r == ApproveTransferByReceiver(ledger, id, ap)
        tid == AsTransfer(ledger, id).token_id
    IN /\ (r.err = "" \/ r.st # ledger)
            => (tid \in DOMAIN ledger /\ AsToken(ledger, tid).owner = ap)
       /\ (Status(ledger, id) = "PendingReceiverApproval"
             /\ (tid \notin DOMAIN ledger \/ AsToken(ledger, tid).owner # ap))
            => (r.err # "" /\ r.st = ledger)

C10_Witness ==
  /\ last.op = "ApproveTransferByReceiver"
  /\ last.err = "approver is not the token owner (receiver)"
  /\ \E k \in TransferKeys \cap DOMAIN ledger :
       /\ Status(ledger, k) = "PendingReceiverApproval"
       /\ AsTransfer(ledger, k).receiver_transfer_id = last.arg
       /\ AsToken(ledger, AsTransfer(ledger, k).token_id).owner
            \in TransferAddresses

(***************************************************************************)
(* Mint issuance and customer sub-accounts: one participant, one customer, *)
(* the first token.                                                        *)
(***************************************************************************)
MintNames == {"Alice"}

MintAddresses == {Sha256Hex(n) : n \in MintNames}

MintCredentials == {<<n, RegPassword, RegCountry>> : n \in MintNames}

MintTokens == {TokenKey(1)}

MintAmounts == {1, 2}

CustomerAddresses == {"cust1"}

CustomerName == "Carol"

CustomerPassword == "c1"

(* the keys of the three request families *)
MintRequestKeys ==
  {"mintrequest_" \o t \o "_" \o a : t \in MintTokens, a \in MintAddresses}

CustomerRequestKeys ==
  {CustomerRequestID(c, t) : c \in CustomerAddresses, t \in MintTokens}

CustomerMintKeys ==
  {"custmintreq_" \o c \o "_" \o t : c \in CustomerAddresses, t \in MintTokens}

CustomerKeys ==
  {"customer_" \o c \o "_" \o t : c \in CustomerAddresses, t \in MintTokens}

(* request ids passed to the admin approval: the participant's mint        *)
(* request, a token key and an address                                     *)
AdminMintIdArgs == MintRequestKeys \cup MintTokens \cup MintAddresses

(* request ids passed to the mint approvals once customers exist: the mint *)
(* requests of both families                                               *)
OwnerMintIdArgs == MintRequestKeys \cup CustomerMintKeys

OwnerArgs == MintAddresses \cup {""}

(* the participant at address a has a mint request waiting for approval *)
PendingMintRequest(l, a) ==
  LET k == "mintrequest_" \o Member(GetState(l, a), "token_id") \o "_" \o a
  IN k \in DOMAIN l /\ ~Member(l[k], "approved")

RequestMintCoinsAct ==
  \E c \in ClientIDs, a \in MintAddresses, pw \in Passwords, n \in MintAmounts :
    LET r == RequestMintCoins(ledger, c, a, pw, n) IN
    /\ Bounded(r.st)
    /\ ledger' = r.st
    /\ last' = Recorded("RequestMintCoins",
                        IF PendingMintRequest(ledger, a) THEN "resubmitted"
                        ELSE "", r)
    /\ UNCHANGED <<nextUuid, pending>>

RegisterCustomerAct(customers, tokens) ==
  \E c \in customers, t \in tokens :
    LET r == RegisterCustomer(ledger, c, CustomerName, CustomerPassword, t) IN
    /\ Bounded(r.st)
    /\ ledger' = r.st
    /\ last' = Recorded("RegisterCustomer", "", r)
    /\ UNCHANGED <<nextUuid, pending>>

ApproveCustomerRegistrationAct(ids, owners) ==
  \E id \in ids, o \in owners :
    LET r == ApproveCustomerRegistration(ledger, id, o) IN
    /\ Bounded(r.st)
    /\ ledger' = r.st
    /\ last' = Recorded("ApproveCustomerRegistration", "", r)
    /\ UNCHANGED <<nextUuid, pending>>

CustomerRequestMintAct ==
  \E c \in CustomerAddresses, t \in MintTokens, n \in MintAmounts :
    LET r == CustomerRequestMint(ledger, c, t, n) IN
    /\ Bounded(r.st)
    /\ ledger' = r.st
    /\ last' = Recorded("CustomerRequestMint", "", r)
    /\ UNCHANGED <<nextUuid, pending>>

ApproveCustomerMintAct ==
  \E id \in OwnerMintIdArgs, o \in OwnerArgs :
    LET r == ApproveCustomerMint(ledger, id, o) IN
    /\ Bounded(r.st)
    /\ ledger' = r.st
    /\ last' = Recorded("ApproveCustomerMint", id, r)
    /\ UNCHANGED <<nextUuid, pending>>

NextMint ==
  \/ InitLedgerAct
  \/ SubmitRegistrationAct(MintNames)
  \/ RequestTokenRequestAct(MintCredentials, MintAddresses, {SixDigitCode})
  \/ ApproveTokenRequestAct(MintAddresses)
  \/ RequestMintCoinsAct
  \/ ApproveMintRequestAct(AdminMintIdArgs)

SpecMint == Init /\ [][NextMint]_vars

(* the world state once the pool is initialised and the participant has    *)
(* registered, requested a token and been approved by the admin            *)
RECURSIVE Allocated(_, _)
Allocated(l, names) ==
  IF names = {} THEN l
  ELSE LET n == CHOOSE x \in names : TRUE
           a == Sha256Hex(n)
           l1 == SubmitRegistration(l, CHOOSE c \in RegistrantIDs : TRUE, n,
                                    RegPassword, RegCountry).st
           l2 == RequestTokenRequest(l1, n, a, RegPassword, RegCountry,
                                     SixDigitCode).st
       IN Allocated(ApproveTokenRequest(l2, AdminMSP, a).st, names \ {n})

InitCustomer ==
  /\ ledger = Allocated(InitLedger(EmptyState).st, MintNames)
  /\ nextUuid = 1
  /\ last = [op |-> "", arg |-> "", err |-> ""]
  /\ pending = {}

NextCustomer ==
  \/ RequestTokenRequestAct(MintCredentials, MintAddresses, {SixDigitCode})
  \/ RequestMintCoinsAct
  \/ ApproveMintRequestAct(OwnerMintIdArgs)
  \/ RegisterCustomerAct(CustomerAddresses, MintTokens)
  \/ ApproveCustomerRegistrationAct(CustomerRequestKeys, OwnerArgs)
  \/ CustomerRequestMintAct
  \/ ApproveCustomerMintAct

SpecCustomer == InitCustomer /\ [][NextCustomer]_vars

(***************************************************************************)
(* Registration with any caller, password hash and country, and token      *)
(* requests with any code.                                                 *)
(***************************************************************************)
SubmitRegistrationAnyAct ==
  \E c \in ClientIDs, n \in Names, pw \in Passwords, co \in Countries :
    LET r == SubmitRegistration(ledger, c, n, pw, co) IN
    /\ ledger' = r.st
    /\ last' = Recorded("SubmitRegistration", n, r)
    /\ UNCHANGED <<nextUuid, pending>>

NextRegistry ==
  \/ InitLedgerAct
  \/ SubmitRegistrationAnyAct
  \/ RequestTokenRequestAct(Credentials, Addresses, AllPincodes)

SpecRegistry == Init /\ [][NextRegistry]_vars

(* the Participant records stored for a name *)
ParticipantsNamed(l, n) ==
  {k \in DOMAIN l : "name" \in DOMAIN l[k] /\ "country" \in DOMAIN l[k]
                      /\ l[k].name = n}

C17_RequestNeedsSixDigits ==
  \A cr \in Credentials, a \in Addresses, pin \in AllPincodes :
    LET r == RequestTokenRequest(ledger, cr[1], a, cr[2], cr[3], pin)
        p == AsParticipant(ledger, a)
        expected == /\ a \in DOMAIN ledger
                    /\ p.name = cr[1]
                    /\ p.password_hash = cr[2]
                    /\ p.country = cr[3]
                    /\ Len(pin) = 6
                    /\ AllDigits(pin)
    IN /\ (r.err = "") <=> expected
       /\ r.err = "" =>
            /\ DOMAIN r.st = DOMAIN ledger \cup {"tokenrequest_" \o a}
            /\ AsTokenRequest(r.st, a).status = "PENDING"
            /\ \A k \in DOMAIN ledger \ {"tokenrequest_" \o a} : r.st[k] = ledger[k]
       /\ r.err # "" => r.st = ledger

(* C11: a call that returns an error leaves the whole world state as it    *)
(* was before the call, the insufficient-funds return of                   *)
(* ApproveTransferByReceiver excepted; writes issued before the failing    *)
(* check do not stay.                                                      *)
C11_FailedCallsWriteNothing ==
  [][(last'.err # ""
        /\ ~(last'.op = "ApproveTransferByReceiver"
               /\ last'.err = "insufficient funds for transfer"))
       => ledger' = ledger]_vars

(***************************************************************************)
(* Mint and customer properties.                                           *)
(***************************************************************************)
AsMintRequest(l, k) == Unmarshal(MintRequestFields, GetState(l, k)).v

AsCustomer(l, k) == Unmarshal(CustomerFields, GetState(l, k)).v

CustomerKeyOf(mr) == "customer_" \o mr.requested_by \o "_" \o mr.token_id

(* C12: ApproveCustomerMint called by the token owner on an unapproved     *)
(* customer mint request of amount A against a mint pool M: if A > M the   *)
(* call fails and nothing changes; if A <= M the request becomes approved, *)
(* the pool becomes M - A and the customer balance grows by exactly A,     *)
(* nothing else changing.                                                  *)
C12_CustomerMintApproval ==
  \A id \in CustomerMintKeys \cap DOMAIN ledger, o \in OwnerArgs :
    LET mr == AsMintRequest(ledger, id)
        M == AsToken(ledger, mr.token_id).minted
        A == AmountInt(mr)
        ck == CustomerKeyOf(mr)
        r == ApproveCustomerMint(ledger, id, o)
    IN (mr.token_id \in DOMAIN ledger
          /\ AsToken(ledger, mr.token_id).owner = o /\ ~mr.approved)
       => /\ A > M => (r.err # "" /\ r.st = ledger)
          /\ A <= M =>
               /\ r.err = ""
               /\ AsMintRequest(r.st, id) = [mr EXCEPT !.approved = TRUE]
               /\ AsToken(r.st, mr.token_id)
                    = [AsToken(ledger, mr.token_id) EXCEPT !.minted = M - A]
               /\ AsCustomer(r.st, ck)
                    = [AsCustomer(ledger, ck) EXCEPT
                         !.balance = AsCustomer(ledger, ck).balance + A]
               /\ DOMAIN r.st = DOMAIN ledger
               /\ \A k \in DOMAIN ledger \ {id, mr.token_id, ck} :
                    r.st[k] = ledger[k]

C12_Witness ==
  /\ last.op = "ApproveCustomerMint"
  /\ last.err = ""
  /\ last.arg \in CustomerMintKeys
  /\ AsMintRequest(ledger, last.arg).approved
  /\ AsCustomer(ledger, CustomerKeyOf(AsMintRequest(ledger, last.arg))).balance
       = AmountInt(AsMintRequest(ledger, last.arg))

(* C13: once a TokenRequest is APPROVED or a mint or customer request has  *)
(* approved = true, no later call, a resubmission of the request included, *)
(* makes it PENDING or unapproved again.                                   *)
C13_ApprovalPermanent ==
  [][/\ \A a \in MintAddresses :
          AsTokenRequest(ledger, a).status = "APPROVED"
            => AsTokenRequest(ledger', a).status = "APPROVED"
     /\ \A k \in MintRequestKeys \cup CustomerRequestKeys \cup CustomerMintKeys :
          Member(GetState(ledger, k), "approved")
            => Member(GetState(ledger', k), "approved")]_vars

(***************************************************************************)
(* The pending lists.  GetStateByRange("", "") visits every key once; the  *)
(* result is given as the function from the keys kept to the records       *)
(* appended.  A key has a prefix when it is the prefix followed by one of  *)
(* the strings the handlers append to it.                                  *)
(***************************************************************************)
HasTokenRequestPrefix(k) == \E a \in AddressArgs : k = "tokenrequest_" \o a

HasMintRequestPrefix(k) ==
  \E t \in TokenKeys, a \in Addresses : k = "mintrequest_" \o t \o "_" \o a

GetPendingTokenRequests(l, msp) ==
  IF VerifyAdmin(msp) # "" THEN Fail(l, VerifyAdmin(msp))
  ELSE Ok(l, [k \in {x \in DOMAIN l :
                       /\ HasTokenRequestPrefix(x)
                       /\ ~Unmarshal(TokenRequestFields, l[x]).err
                       /\ Unmarshal(TokenRequestFields, l[x]).v.status = "PENDING"}
                |-> Unmarshal(TokenRequestFields, l[k]).v])

GetPendingMintRequests(l, msp) ==
  IF VerifyAdmin(msp) # "" THEN Fail(l, VerifyAdmin(msp))
  ELSE Ok(l, [k \in {x \in DOMAIN l :
                       /\ HasMintRequestPrefix(x)
                       /\ ~Unmarshal(MintRequestFields, l[x]).err
                       /\ ~Unmarshal(MintRequestFields, l[x]).v.approved}
                |-> Unmarshal(MintRequestFields, l[k]).v])

(* C14: submitting RequestTokenRequest, RequestMintCoins or                *)
(* CustomerRequestMint again for a key whose request is still pending      *)
(* succeeds and replaces the record under the same key by one holding the  *)
(* values of the new submission; no key is added, so the pending lists     *)
(* keep one entry for the key.                                             *)
C14_ResubmissionReplaces ==
  /\ \A a \in MintAddresses, pin \in {x \in AllPincodes : Len(x) = 6} :
       LET k == "tokenrequest_" \o a
           p == AsParticipant(ledger, a)
           r == RequestTokenRequest(ledger, p.name, a, p.password_hash,
                                    p.country, pin)
       IN (k \in DOMAIN ledger /\ AsTokenRequest(ledger, a).status = "PENDING")
          => /\ r.err = ""
             /\ DOMAIN r.st = DOMAIN ledger
             /\ \A x \in DOMAIN ledger \ {k} : r.st[x] = ledger[x]
             /\ AsTokenRequest(r.st, a)
                  = [ZeroDoc EXCEPT !.request_id = k, !.network_addr = a,
                                    !.status = "PENDING", !.pincode = pin]
             /\ DOMAIN GetPendingTokenRequests(r.st, AdminMSP).ret
                  = DOMAIN GetPendingTokenRequests(ledger, AdminMSP).ret
  /\ \A a \in MintAddresses, n \in MintAmounts :
       LET p == AsParticipant(ledger, a)
           k == "mintrequest_" \o p.token_id \o "_" \o a
           r == RequestMintCoins(ledger, p.client_id, a, p.password_hash, n)
       IN PendingMintRequest(ledger, a)
          => /\ r.err = ""
             /\ DOMAIN r.st = DOMAIN ledger
             /\ \A x \in DOMAIN ledger \ {k} : r.st[x] = ledger[x]
             /\ AsMintRequest(r.st, k)
                  = [ZeroDoc EXCEPT !.request_id = k, !.token_id = p.token_id,
                                    !.requested_by = a, !.amount = n * Scale]
             /\ DOMAIN GetPendingMintRequests(r.st, AdminMSP).ret
                  = DOMAIN GetPendingMintRequests(ledger, AdminMSP).ret
  /\ \A c \in CustomerAddresses, t \in MintTokens, n \in MintAmounts :
       LET k == "custmintreq_" \o c \o "_" \o t
           r == CustomerRequestMint(ledger, c, t, n)
       IN (k \in DOMAIN ledger /\ ~AsMintRequest(ledger, k).approved)
          => /\ r.err = ""
             /\ DOMAIN r.st = DOMAIN ledger
             /\ \A x \in DOMAIN ledger \ {k} : r.st[x] = ledger[x]
             /\ AsMintRequest(r.st, k)
                  = [ZeroDoc EXCEPT !.request_id = k, !.token_id = t,
                                    !.requested_by = c, !.amount = n * Scale]

C14_Witness ==
  /\ last.op = "RequestMintCoins"
  /\ last.err = ""
  /\ last.arg = "resubmitted"
  /\ \E k \in MintRequestKeys \cap DOMAIN ledger :
       /\ ~AsMintRequest(ledger, k).approved
       /\ AmountInt(AsMintRequest(ledger, k)) = 2
       /\ k \in DOMAIN GetPendingMintRequests(ledger, AdminMSP).ret

(* C18: called by an organization other than Org1MSP,                      *)
(* GetPendingTokenRequests, ApproveTokenRequest, GetPendingMintRequests    *)
(* and ApproveMintRequest fail and change nothing, whatever the argument   *)
(* and the world state.                                                    *)
C18_AdminOnly ==
  \A msp \in MSPs \ {AdminMSP} :
    /\ GetPendingTokenRequests(ledger, msp).err # ""
    /\ GetPendingTokenRequests(ledger, msp).st = ledger
    /\ GetPendingMintRequests(ledger, msp).err # ""
    /\ GetPendingMintRequests(ledger, msp).st = ledger
    /\ \A a \in AddressArgs \cup DOMAIN ledger :
         /\ ApproveTokenRequest(ledger, msp, a).err # ""
         /\ ApproveTokenRequest(ledger, msp, a).st = ledger
    /\ \A id \in AdminMintIdArgs \cup DOMAIN ledger :
         /\ ApproveMintRequest(ledger, msp, id).err # ""
         /\ ApproveMintRequest(ledger, msp, id).st = ledger

C18_Witness ==
  /\ last.op = "ApproveMintRequest"
  /\ last.err = VerifyAdmin("Org2MSP")
  /\ \E k \in MintRequestKeys \cap DOMAIN ledger :
       /\ ~AsMintRequest(ledger, k).approved
       /\ ApproveMintRequest(ledger, AdminMSP, k).err = ""
  /\ \E a \in MintAddresses :
       "tokenrequest_" \o a \in DOMAIN GetPendingTokenRequests(ledger, AdminMSP).ret

(* C19: RequestMintCoins(address, passwordHash, amount) writes an          *)
(* unapproved MintRequest under mintrequest_<token>_<address> exactly when *)
(* a record exists at address, its password hash equals passwordHash, its  *)
(* client id equals the caller's, and its token exists with owner equal to *)
(* address; otherwise it fails and writes nothing.  A participant without  *)
(* a token gets no mint request.                                           *)
C19_MintRequestNeedsOwnedToken ==
  \A c \in ClientIDs, a \in MintAddresses \cup MintTokens,
     pw \in Passwords \cup {""}, n \in MintAmounts :
    LET r == RequestMintCoins(ledger, c, a, pw, n)
        p == AsParticipant(ledger, a)
        k == "mintrequest_" \o p.token_id \o "_" \o a
        expected == /\ a \in DOMAIN ledger
                    /\ p.password_hash = pw
                    /\ p.client_id = c
                    /\ p.token_id \in DOMAIN ledger
                    /\ AsToken(ledger, p.token_id).owner = a
    IN /\ (r.err = "") <=> expected
       /\ r.err = "" =>
            r.st = PutState(ledger, k,
                     Marshal(MintRequestFields,
                             [ZeroDoc EXCEPT !.request_id = k,
                                             !.token_id = p.token_id,
                                             !.requested_by = a,
                                             !.amount = n * Scale]))
       /\ r.err # "" => r.st = ledger
       /\ (a \in DOMAIN ledger /\ p.token_id = "") => r.err # ""

C19_Witness ==
  /\ last.op = "RequestMintCoins"
  /\ last.err = "caller is not token owner"
  /\ \E a \in MintAddresses :
       /\ AsParticipant(ledger, a).token_id \in MintTokens
       /\ AsToken(ledger, AsParticipant(ledger, a).token_id).owner = ""
       /\ \A k \in MintRequestKeys : k \notin DOMAIN ledger

(* C20: ApproveMintRequest by the admin fails and changes nothing when the *)
(* mint request is missing or already approved; on an unapproved request   *)
(* it succeeds, sets approved and adds exactly the requested amount to the *)
(* mint pool of the request's token, changing nothing else, and a second   *)
(* approval of the same submission fails, so a submission is credited at   *)
(* most once.                                                              *)
C20_MintApprovedOnce ==
  \A id \in MintRequestKeys :
    LET r == ApproveMintRequest(ledger, AdminMSP, id)
        mr == AsMintRequest(ledger, id)
        t == mr.token_id
    IN /\ (id \notin DOMAIN ledger \/ mr.approved)
            => (r.err # "" /\ r.st = ledger)
       /\ (id \in DOMAIN ledger /\ ~mr.approved) =>
            /\ r.err = ""
            /\ AsMintRequest(r.st, id) = [mr EXCEPT !.approved = TRUE]
            /\ AsToken(r.st, t)
                 = [AsToken(ledger, t) EXCEPT
                      !.minted = AsToken(ledger, t).minted + AmountInt(mr)]
            /\ DOMAIN r.st = DOMAIN ledger
            /\ \A k \in DOMAIN ledger \ {id, t} : r.st[k] = ledger[k]
            /\ ApproveMintRequest(r.st, AdminMSP, id).err # ""
            /\ ApproveMintRequest(r.st, AdminMSP, id).st = r.st

C20_Witness ==
  /\ last.op = "ApproveMintRequest"
  /\ last.err = ""
  /\ \E k \in MintRequestKeys \cap DOMAIN ledger :
       /\ AsMintRequest(ledger, k).approved
       /\ AmountInt(AsMintRequest(ledger, k)) = 2
       /\ AsToken(ledger, AsMintRequest(ledger, k).token_id).minted = 2

(***************************************************************************)
(* Customer registration against the tokens of two participants: both are  *)
(* registered and hold a token each, a third token is in the pool, and one *)
(* token id names no record.                                               *)
(***************************************************************************)
OnboardCustomers == CustomerAddresses \cup {"cust2"}

OnboardTokens == {TokenKey(1), TokenKey(2), TokenKey(3), TokenKey(maxTokens + 1)}

InitOnboard ==
  /\ ledger = Allocated(InitLedger(EmptyState).st, Names)
  /\ nextUuid = 1
  /\ last = [op |-> "", arg |-> "", err |-> ""]
  /\ pending = {}

NextOnboard ==
  \/ RegisterCustomerAct(OnboardCustomers, OnboardTokens)
  \/ ApproveCustomerRegistrationAct({CustomerRequestID(c, t) : c \in OnboardCustomers, t \in OnboardTokens}, Addresses \cup {""})

SpecOnboard == InitOnboard /\ [][NextOnboard]_vars

(* C21: RegisterCustomer(address, name, passwordHash, tokenId) stores a    *)
(* new unapproved request under the key of (address, tokenId) exactly when *)
(* the token exists with a non-empty owner and that key holds no request;  *)
(* otherwise, a duplicate for the same pair included, it fails and changes *)
(* nothing.  A request of the same address against another token does not  *)
(* stand in the way.                                                       *)
C21_RegisterCustomerOncePerPair ==
  \A c \in OnboardCustomers, t \in OnboardTokens :
    LET r == RegisterCustomer(ledger, c, CustomerName, CustomerPassword, t)
        k == "custreq_" \o c \o "_" \o t
        expected == /\ t \in DOMAIN ledger
                    /\ AsToken(ledger, t).owner # ""
                    /\ k \notin DOMAIN ledger
    IN /\ (r.err = "") <=> expected
       /\ r.err = "" =>
            /\ DOMAIN r.st = DOMAIN ledger \cup {k}
            /\ \A x \in DOMAIN ledger : r.st[x] = ledger[x]
            /\ r.st[k] = Marshal(RegisterCustomerRequestFields,
                                 [ZeroDoc EXCEPT !.request_id = k,
                                                 !.network_address = c,
                                                 !.name = CustomerName,
                                                 !.password_hash = CustomerPassword,
                                                 !.token_id = t,
                                                 !.approved = FALSE])
       /\ r.err # "" => r.st = ledger

C21_Witness ==
  /\ last.op = "RegisterCustomer"
  /\ last.err = "customer registration request already exists"
  /\ \E c \in OnboardCustomers :
       /\ "custreq_" \o c \o "_" \o TokenKey(1) \in DOMAIN ledger
       /\ "custreq_" \o c \o "_" \o TokenKey(2) \in DOMAIN ledger
       /\ AsToken(ledger, TokenKey(1)).owner # AsToken(ledger, TokenKey(2)).owner

(* C22: a Customer record comes into existence only by a successful        *)
(* ApproveCustomerRegistration.  That call succeeds exactly when            *)
(* ownerAddress equals the current owner of the request's token and the    *)
(* request is unapproved; it then marks the request approved and creates   *)
(* the Customer of (address, tokenId) with balance 0 and approved = true,  *)
(* and otherwise changes nothing.                                          *)
C22_CustomerOnlyByApproval ==
  /\ [](\A id \in CustomerRequestKeys \cap DOMAIN ledger, o \in OwnerArgs :
          LET req == Unmarshal(RegisterCustomerRequestFields, ledger[id]).v
              r == ApproveCustomerRegistration(ledger, id, o)
              ck == "customer_" \o req.network_address \o "_" \o req.token_id
          IN /\ (r.err = "") <=> (/\ req.token_id \in DOMAIN ledger
                                  /\ AsToken(ledger, req.token_id).owner = o
                                  /\ ~req.approved)
             /\ r.err = "" =>
                  /\ DOMAIN r.st = DOMAIN ledger \cup {ck}
                  /\ \A k \in DOMAIN ledger \ {id, ck} : r.st[k] = ledger[k]
                  /\ r.st[id] = [ledger[id] EXCEPT !.approved = TRUE]
                  /\ r.st[ck] = Marshal(CustomerFields,
                                  [ZeroDoc EXCEPT
                                     !.network_address = req.network_address,
                                     !.name = req.name,
                                     !.password_hash = req.password_hash,
                                     !.token_id = req.token_id,
                                     !.approved = TRUE,
                                     !.balance = 0])
             /\ r.err # "" => r.st = ledger)
  /\ [][\A k \in DOMAIN ledger' :
          (/\ DOMAIN ledger'[k] = CustomerFields \cup {"kind"}
           /\ (k \in DOMAIN ledger => DOMAIN ledger[k] # CustomerFields \cup {"kind"}))
          => (last'.op = "ApproveCustomerRegistration" /\ last'.err = "")]_vars

C22_Witness ==
  /\ last.op = "ApproveCustomerRegistration"
  /\ last.err = ""
  /\ \E c \in CustomerAddresses, t \in MintTokens :
       /\ Member(GetState(ledger, CustomerRequestID(c, t)), "approved")
       /\ AsCustomer(ledger, "customer_" \o c \o "_" \o t).approved
       /\ AsCustomer(ledger, "customer_" \o c \o "_" \o t).network_address = c
       /\ AsCustomer(ledger, "customer_" \o c \o "_" \o t).balance = 0
       /\ AsToken(ledger, t).owner \in MintAddresses

(***************************************************************************)
(* The transfer handlers alone, on the seeded world state: no participant  *)
(* registers, so every token the pool holds stays without an owner.        *)
(***************************************************************************)
NextTransferOnly ==
  \/ InitLedgerAct
  \/ CreateTransferRequestAct(SenderRefs, TransferTokens)
  \/ ApproveTransferByOwnerAct
  \/ ApproveTransferByReceiverAct

SpecTransferOnly == InitTransfer /\ [][NextTransferOnly]_vars

(* C23: CreateTransferRequest with a well-formed amount stores one new     *)
(* TransferRequest in status PendingOwnerApproval, holding the arguments,  *)
(* under an id no existing key has, and changes no other record; with an   *)
(* amount that is not a decimal number it fails and stores nothing.        *)
C23_CreateStoresOneRequest ==
  \A sender \in SenderRefs, receiver \in ReceiverRefs, tid \in TransferTokens,
     amt \in AmountStrings :
    LET r == CreateTransferRequest(ledger, UuidOf(nextUuid), sender, receiver,
                                   "", "", tid, amt)
        malformed == amt \in {<<"a", "b", "c">>, <<"N", "a", "N">>}
    IN /\ malformed => (r.err # "" /\ r.st = ledger)
       /\ ~malformed =>
            /\ r.err = ""
            /\ r.ret \notin DOMAIN ledger
            /\ DOMAIN r.st = DOMAIN ledger \cup {r.ret}
            /\ \A k \in DOMAIN ledger : r.st[k] = ledger[k]
            /\ DOMAIN r.st[r.ret] = TransferRequestFields \cup {"kind"}
            /\ Status(r.st, r.ret) = "PendingOwnerApproval"
            /\ AsTransfer(r.st, r.ret).transfer_request_id = r.ret
            /\ AsTransfer(r.st, r.ret).sender_transfer_id = sender
            /\ AsTransfer(r.st, r.ret).receiver_transfer_id = receiver
            /\ AsTransfer(r.st, r.ret).token_id = tid

C23_Witness ==
  /\ last.op = "CreateTransferRequest"
  /\ last.err = ""
  /\ \E k \in TransferKeys \cap DOMAIN ledger :
       /\ Status(ledger, k) = "PendingOwnerApproval"
       /\ AsTransfer(ledger, k).sender_transfer_id \in DOMAIN ledger
       /\ SenderBalance(ledger, k) \in SeedBalances
       /\ AsTransfer(ledger, k).token_id \in DOMAIN ledger
       /\ AsToken(ledger, AsTransfer(ledger, k).token_id).available

C25_PoolChangesThreeWays ==
  [][\A t \in TokenKeys \cap DOMAIN ledger :
       LET before == AsToken(ledger, t).minted
           after == Member(GetState(ledger', t), "minted")
           requests == {k \in DOMAIN ledger :
                          /\ Member(ledger[k], "token_id") = t
                          /\ "amount" \in DOMAIN ledger[k]}
       IN after # before =>
            /\ last'.err = ""
            /\ \/ /\ last'.op = "ApproveMintRequest"
                  /\ \E k \in requests :
                       /\ "requested_by" \in DOMAIN ledger[k]
                       /\ after = before + AmountInt(ledger[k])
               \/ /\ last'.op = "ApproveCustomerMint"
                  /\ \E k \in requests :
                       /\ "requested_by" \in DOMAIN ledger[k]
                       /\ after = before - AmountInt(ledger[k])
               \/ /\ last'.op = "ApproveTransferByReceiver"
                  /\ \E k \in requests :
                       /\ Status(ledger', k) = "Completed"
                       /\ after = before + FloatToInt(ledger[k].amount)]_vars

(* C26: once a token is allocated (owner set, not available), no later     *)
(* call, another InitLedger or ApproveTokenRequest included, changes its   *)
(* owner or makes it available again.                                      *)
C26_AllocationPermanent ==
  [][\A t \in TokenKeys \cap DOMAIN ledger :
       (AsToken(ledger, t).owner # "" /\ ~AsToken(ledger, t).available)
         => /\ AsToken(ledger', t).owner = AsToken(ledger, t).owner
            /\ ~AsToken(ledger', t).available]_vars

(* C27: records of different types live under disjoint key namespaces:     *)
(* whatever arguments the callers supply, a token key holds a Token, an    *)
(* address a Participant and a token request key a TokenRequest made for   *)
(* a participant's address, so no handler has read a record of one type as *)
(* another or written one type over another.                               *)
C27_DisjointNamespaces ==
  /\ \A k \in TokenKeys \cap DOMAIN ledger :
       DOMAIN ledger[k] = TokenFields \cup {"kind"}
  /\ \A a \in Addresses \cap DOMAIN ledger :
       DOMAIN ledger[a] = ParticipantFields \cup {"kind"}
  /\ \A k \in DOMAIN ledger :
       HasTokenRequestPrefix(k) =>
         /\ DOMAIN ledger[k] = TokenRequestFields \cup {"kind"}
         /\ ledger[k].network_addr \notin TokenKeys

CustomerRequestPrefixed ==
  {"custreq_" \o c \o "_" \o t : c \in OnboardCustomers, t \in TokenKeys}

CustomerMintPrefixed ==
  {"custmintreq_" \o c \o "_" \o t : c \in OnboardCustomers, t \in TokenKeys}

(* mutation: requests of every token are kept *)
ForToken_Any(r, tokenID) == TRUE

ForToken(r, tokenID) == r.token_id = tokenID

ViewPendingCustomerRegistrations(l, tokenID, ownerNetworkAddress) ==
  LET tokenBytes == GetState(l, tokenID) IN
  IF IsNil(tokenBytes) THEN Fail(l, "token not found")
  ELSE IF Unmarshal(TokenFields, tokenBytes).err
       THEN Fail(l, "json: cannot unmarshal")
  ELSE IF Unmarshal(TokenFields, tokenBytes).v.owner # ownerNetworkAddress
       THEN Fail(l, "caller is not token owner")
  ELSE Ok(l, [k \in {x \in DOMAIN l :
                       /\ x \in CustomerRequestPrefixed
                       /\ ~Unmarshal(RegisterCustomerRequestFields, l[x]).err
                       /\ ForToken(Unmarshal(RegisterCustomerRequestFields, l[x]).v, tokenID)
                       /\ ~Unmarshal(RegisterCustomerRequestFields, l[x]).v.approved}
                |-> Unmarshal(RegisterCustomerRequestFields, l[k]).v])

ViewPendingCustomerMintRequests(l, tokenID, ownerNetworkAddress) ==
  LET tokenBytes == GetState(l, tokenID) IN
  IF IsNil(tokenBytes) THEN Fail(l, "token not found")
  ELSE IF Unmarshal(TokenFields, tokenBytes).err
       THEN Fail(l, "json: cannot unmarshal")
  ELSE IF Unmarshal(TokenFields, tokenBytes).v.owner # ownerNetworkAddress
       THEN Fail(l, "caller is not token owner")
  ELSE Ok(l, [k \in {x \in DOMAIN l :
                       /\ x \in CustomerMintPrefixed
                       /\ ~Unmarshal(MintRequestFields, l[x]).err
                       /\ ForToken(Unmarshal(MintRequestFields, l[x]).v, tokenID)
                       /\ ~Unmarshal(MintRequestFields, l[x]).v.approved}
                |-> Unmarshal(MintRequestFields, l[k]).v])

C30_ParticipantFrame ==
  [][\A a \in Addresses \cap DOMAIN ledger :
       DOMAIN ledger[a] = ParticipantFields \cup {"kind"} =>
         /\ a \in DOMAIN ledger'
         /\ DOMAIN ledger'[a] = ParticipantFields \cup {"kind"}
         /\ \A f \in ParticipantFields \ {"token_id", "approved"} :
              ledger'[a][f] = ledger[a][f]
         /\ ledger'[a] # ledger[a]
              => (last'.op = "ApproveTokenRequest" /\ last'.err = "")]_vars

(* C31: a bare balance record changes only in an ApproveTransferByReceiver *)
(* call that ends with the transfer Completed, and such a call leaves the  *)
(* sender's balance at its former value less the transfer's amount; every  *)
(* other step leaves all balance records as they were, and no step of the  *)
(* transfer protocol changes a record carrying Customer.balance.           *)
C31_BalanceFrame ==
  [][/\ \A k \in DOMAIN ledger :
          ledger[k].kind = "num" =>
            /\ k \in DOMAIN ledger'
            /\ ledger'[k] # ledger[k] =>
                 /\ last'.op = "ApproveTransferByReceiver"
                 /\ last'.err = ""
                 /\ \E id \in TransferKeys \cap DOMAIN ledger :
                      /\ AsTransfer(ledger, id).sender_transfer_id = k
                      /\ Status(ledger, id) = "PendingReceiverApproval"
                      /\ Status(ledger', id) = "Completed"
     /\ \A id \in TransferKeys \cap DOMAIN ledger :
          (/\ Status(ledger, id) = "PendingReceiverApproval"
           /\ Status(ledger', id) = "Completed") =>
            LET k == AsTransfer(ledger, id).sender_transfer_id IN
            /\ ledger'[k].kind = "num"
            /\ ledger'[k].num = ledger[k].num - AsTransfer(ledger, id).amount
     /\ \A k \in DOMAIN ledger :
          ("balance" \in DOMAIN ledger[k]
             /\ last'.op \in {"CreateTransferRequest", "ApproveTransferByOwner",
                              "ApproveTransferByReceiver"})
            => (k \in DOMAIN ledger' /\ ledger'[k] = ledger[k])]_vars

(* C32: a pending request stays pending across every step that is not an   *)
(* approval of that request: a PENDING TokenRequest stays PENDING unless    *)
(* ApproveTokenRequest succeeds, an unapproved participant mint request,    *)
(* customer mint request or customer registration stays unapproved unless   *)
(* its own approval (ApproveMintRequest, ApproveCustomerMint for that       *)
(* request, ApproveCustomerRegistration) succeeds, and a TransferRequest    *)
(* keeps its non-terminal status unless the matching approval is called.    *)
C32_PendingPersists ==
  [][/\ \A a \in Addresses :
          LET k == "tokenrequest_" \o a IN
          (k \in DOMAIN ledger /\ Status(ledger, k) = "PENDING"
             /\ ~(last'.op = "ApproveTokenRequest" /\ last'.err = ""))
            => (k \in DOMAIN ledger' /\ Status(ledger', k) = "PENDING")
     /\ \A k \in MintRequestKeys \cap DOMAIN ledger :
          (~Member(ledger[k], "approved")
             /\ ~(last'.op = "ApproveMintRequest" /\ last'.err = ""))
            => (k \in DOMAIN ledger' /\ ~Member(ledger'[k], "approved"))
     /\ \A k \in CustomerMintKeys \cap DOMAIN ledger :
          (~Member(ledger[k], "approved")
             /\ ~(last'.op = "ApproveCustomerMint" /\ last'.err = ""
                    /\ last'.arg = k))
            => (k \in DOMAIN ledger' /\ ~Member(ledger'[k], "approved"))
     /\ \A k \in CustomerRequestKeys \cap DOMAIN ledger :
          (~Member(ledger[k], "approved")
             /\ ~(last'.op = "ApproveCustomerRegistration" /\ last'.err = ""))
            => (k \in DOMAIN ledger' /\ ~Member(ledger'[k], "approved"))
     /\ \A k \in TransferKeys \cap DOMAIN ledger :
          /\ (Status(ledger, k) = "PendingOwnerApproval"
                /\ last'.op # "ApproveTransferByOwner")
               => (k \in DOMAIN ledger'
                     /\ Status(ledger', k) = "PendingOwnerApproval")
          /\ (Status(ledger, k) = "PendingReceiverApproval"
                /\ last'.op # "ApproveTransferByReceiver")
               => (k \in DOMAIN ledger'
                     /\ Status(ledger', k) = "PendingReceiverApproval")]_vars

(***************************************************************************)
(* The owner's combined view.  GetQueryResult returns the stored JSON      *)
(* documents matching a selector; a selector is a set of alternatives,     *)
(* each a function from member names to the values required, and a         *)
(* document matches an alternative when it has every member named, with    *)
(* that value.                                                             *)
(***************************************************************************)
GetQueryResult(l, selector) ==
  {k \in DOMAIN l :
     /\ l[k].kind = "json"
     /\ \E alt \in selector :
          \A f \in DOMAIN alt : f \in DOMAIN l[k] /\ l[k][f] = alt[f]}

GetParticipantTransferHistory(l, participantTransferID) ==
  LET found == GetQueryResult(l, {[sender_transfer_id |-> participantTransferID],
                                  [receiver_transfer_id |-> participantTransferID]})
  IN [k \in {x \in found : ~Unmarshal(TransferRequestFields, l[x]).err}
        |-> Unmarshal(TransferRequestFields, l[k]).v]

(* mutation: the selector names the member Participant does define *)
ParticipantSelector_ByTokenId(tokenID) == {[token_id |-> tokenID]}

ParticipantSelector(tokenID) == {[token_transfer_id |-> tokenID]}

GetTokenParticipantsAndTransactions(l, tokenID, callerTransferID) ==
  LET tokenBytes == GetState(l, tokenID)
      ut == Unmarshal(TokenFields, tokenBytes)
  IN
  IF IsNil(tokenBytes) THEN Fail(l, "token not found")
  ELSE IF ut.err THEN Fail(l, "json: cannot unmarshal")
  ELSE IF ut.v.owner # callerTransferID
       THEN Fail(l, "access denied: caller is not the token owner")
  ELSE
    LET found == GetQueryResult(l, ParticipantSelector(tokenID))
        participants == [k \in {x \in found : ~Unmarshal(ParticipantFields, l[x]).err}
                           |-> Unmarshal(ParticipantFields, l[k]).v]
        addresses == {participants[k].network_address : k \in DOMAIN participants}
    IN Ok(l, [tokenID |-> tokenID,
              participantCount |-> Cardinality(DOMAIN participants),
              participants |-> participants,
              participantTransfers |->
                [a \in addresses |-> GetParticipantTransferHistory(l, a)]])

(* C33: in every reachable state GetTokenParticipantsAndTransactions       *)
(* called with the token's current owner returns participantCount 0, no    *)
(* participants and an empty participant-transfer map, and called with     *)
(* any other caller it fails with nothing returned.                        *)
C33_NoParticipantsReturned ==
  \A t \in {TokenKey(1), TokenKey(2)} \cap DOMAIN ledger, c \in Addresses \cup {""} :
    LET r == GetTokenParticipantsAndTransactions(ledger, t, c) IN
    /\ r.st = ledger
    /\ IF c = AsToken(ledger, t).owner
       THEN /\ r.err = ""
            /\ r.ret.tokenID = t
            /\ r.ret.participantCount = 0
            /\ DOMAIN r.ret.participants = {}
            /\ DOMAIN r.ret.participantTransfers = {}
       ELSE r.err = "access denied: caller is not the token owner"

C33_Witness ==
  \E a \in Addresses :
    /\ TokenKey(1) \in DOMAIN ledger
    /\ AsToken(ledger, TokenKey(1)).owner = a
    /\ AsParticipant(ledger, a).token_id = TokenKey(1)
    /\ GetTokenParticipantsAndTransactions(ledger, TokenKey(1), a).err = ""
    /\ AsToken(ledger, TokenKey(2)).owner \in Addresses \ {a}

(* C34: in every reachable state every token's mint pool and every         *)
(* Customer balance is greater than or equal to zero, whatever amounts     *)
(* (negative ones included) the requests carried.                          *)
C34_PoolsAndBalancesNonNegative ==
  \A k \in DOMAIN ledger :
    /\ Member(ledger[k], "minted") >= 0
    /\ Member(ledger[k], "balance") >= 0

(* C35: no participant address is ever the owner of more than one token:   *)
(* every token whose owner is address a is the token named by              *)
(* Participant(a).tokenId.                                                 *)
C35_OneTokenPerOwner ==
  \A t \in TokenKeys \cap DOMAIN ledger, a \in Addresses :
    AsToken(ledger, t).owner = a => AsParticipant(ledger, a).token_id = t

(* C36: the three records touched by allocation agree: a participant is    *)
(* approved exactly when its token id is non-empty, and whenever the       *)
(* TokenRequest of address a is APPROVED with token id t, Participant(a)   *)
(* names t and Token(t) has owner a and is not available.                  *)
C36_AllocationRecordsAgree ==
  \A a \in Addresses :
    /\ a \in DOMAIN ledger =>
         (AsParticipant(ledger, a).approved
            <=> AsParticipant(ledger, a).token_id # "")
    /\ ("tokenrequest_" \o a \in DOMAIN ledger
          /\ AsTokenRequest(ledger, a).status = "APPROVED") =>
         LET t == AsTokenRequest(ledger, a).token_id IN
         /\ AsParticipant(ledger, a).token_id = t
         /\ AsToken(ledger, t).owner = a
         /\ ~AsToken(ledger, t).available

(* C37: a TransferRequest reaches Completed or Rejected only if its token  *)
(* exists and has been allocated to an owner: for a transfer naming a      *)
(* token whose owner is still empty, ApproveTransferByReceiver fails and   *)
(* leaves the state as it was for every approver value, the empty string   *)
(* included.                                                               *)
C37_UnallocatedTokenBlocksTransfer ==
  \A id \in TransferKeys \cap DOMAIN ledger, approver \in ApproverArgs :
    LET t == AsTransfer(ledger, id).token_id
        r == ApproveTransferByReceiver(ledger, id, approver)
    IN (t \notin DOMAIN ledger \/ AsToken(ledger, t).owner = "") =>
         /\ r.err # ""
         /\ r.st = ledger
         /\ Status(ledger, id) \notin {"Completed", "Rejected"}

(***************************************************************************)
(* Settlement of transfers on a token that has an owner: the pool is       *)
(* initialised and the participant holds token_1; the sender reference of  *)
(* a transfer is the balance key, which may hold no record, or the         *)
(* participant's own address, which holds a Participant record.            *)
(***************************************************************************)
InitSettle ==
  /\ \E ks \in SUBSET BalanceKeys :
       \E seed \in [ks -> SeedBalances] :
         ledger = Allocated(InitLedger(SeededState(seed)).st, TransferNames)
  /\ nextUuid = 1
  /\ last = [op |-> "", arg |-> "", err |-> ""]
  /\ pending = {}

NextSettle ==
  \/ CreateTransferRequestAct(SenderRefs \cup TransferAddresses, TransferTokens)
  \/ ApproveTransferByOwnerAct
  \/ ApproveTransferByReceiverAct

SpecSettle == InitSettle /\ [][NextSettle]_vars

(* C38: when ApproveTransferByReceiver is called by the token's owner on a *)
(* transfer pending receiver approval and the sender reference holds no    *)
(* record, or a record that is not a number, the call fails, the state is  *)
(* unchanged and the transfer stays PendingReceiverApproval; once a        *)
(* sufficient balance record is stored at a missing sender reference, the  *)
(* same approval completes.                                                *)
C38_MissingBalanceFailsCleanly ==
  \A id \in TransferKeys \cap DOMAIN ledger, approver \in ApproverArgs :
    LET request == AsTransfer(ledger, id)
        s == request.sender_transfer_id
        t == request.token_id
        r == ApproveTransferByReceiver(ledger, id, approver)
    IN (/\ request.status = "PendingReceiverApproval"
        /\ t \in DOMAIN ledger
        /\ AsToken(ledger, t).owner = approver
        /\ (s \notin DOMAIN ledger \/ ledger[s].kind # "num")) =>
         /\ r.err = IF s \in DOMAIN ledger THEN "invalid sender balance"
                    ELSE "sender balance not found"
         /\ r.st = ledger
         /\ Status(r.st, id) = "PendingReceiverApproval"
         /\ \A b \in SeedBalances :
              (s \notin DOMAIN ledger /\ b >= request.amount) =>
                LET later == ApproveTransferByReceiver(
                               PutState(r.st, s, NumDoc(b)), id, approver)
                IN /\ later.err = ""
                   /\ Status(later.st, id) = "Completed"

C38_Witness ==
  \E id \in TransferKeys \cap DOMAIN ledger :
    /\ Status(ledger, id) = "PendingReceiverApproval"
    /\ AsTransfer(ledger, id).sender_transfer_id \notin DOMAIN ledger
    /\ AsTransfer(ledger, id).amount <= 3 * (Scale \div 2)
    /\ last.op = "ApproveTransferByReceiver"
    /\ last.arg = AsToken(ledger, AsTransfer(ledger, id).token_id).owner
    /\ last.arg # ""
    /\ last.err = "sender balance not found"

(***************************************************************************)
(* Transfers next to customer wallets: the pool is initialised, the        *)
(* participant holds token_1, a balance record is seeded and the customer  *)
(* has registered for token_1 and been approved by its owner.  A transfer  *)
(* request may name the token or, unvalidated, the customer's wallet key.  *)
(***************************************************************************)
InitWallet ==
  /\ \E a \in MintAddresses, c \in CustomerAddresses, b \in SeedBalances :
       LET l0 == Allocated(InitLedger(SeededState([k \in BalanceKeys |-> b])).st,
                           MintNames)
           l1 == RegisterCustomer(l0, c, CustomerName, CustomerPassword,
                                  TokenKey(1)).st
       IN ledger = ApproveCustomerRegistration(
                     l1, CustomerRequestID(c, TokenKey(1)), a).st
  /\ nextUuid = 1
  /\ last = [op |-> "", arg |-> "", err |-> ""]
  /\ pending = {}

NextWallet ==
  \/ CustomerRequestMintAct
  \/ ApproveCustomerMintAct
  \/ CreateTransferRequestAct(SenderRefs, MintTokens \cup CustomerKeys)
  \/ ApproveTransferByOwnerAct
  \/ ApproveTransferByReceiverAct

SpecWallet == InitWallet /\ [][NextWallet]_vars

(* C39: ApproveCustomerRegistration succeeds at most once for each         *)
(* (customer address, token id) pair: whatever record it is pointed at, it *)
(* never overwrites an existing Customer record and succeeds only when no  *)
(* Customer exists yet for the request's pair; a Customer record, once     *)
(* written, stays, and it changes only in a successful ApproveCustomerMint *)
(* of that customer's mint request, which adds the requested amount to the *)
(* balance and changes nothing else.                                       *)
C39_CustomerApprovedOnce ==
  /\ [](\A id \in DOMAIN ledger, o \in OwnerArgs :
          LET r == ApproveCustomerRegistration(ledger, id, o)
              req == Unmarshal(RegisterCustomerRequestFields, ledger[id]).v
              ck == "customer_" \o req.network_address \o "_" \o req.token_id
          IN /\ \A k \in DOMAIN ledger :
                  DOMAIN ledger[k] = CustomerFields \cup {"kind"}
                    => r.st[k] = ledger[k]
             /\ r.err = "" => ck \notin DOMAIN ledger)
  /\ [][\A k \in DOMAIN ledger :
          DOMAIN ledger[k] = CustomerFields \cup {"kind"} =>
            /\ k \in DOMAIN ledger'
            /\ ledger'[k] # ledger[k] =>
                 LET mk == "custmintreq_" \o ledger[k].network_address \o "_"
                             \o ledger[k].token_id
                 IN /\ last'.op = "ApproveCustomerMint"
                    /\ last'.err = ""
                    /\ last'.arg = mk
                    /\ ledger'[k] = [ledger[k] EXCEPT
                                       !.balance = @ + AmountInt(AsMintRequest(ledger, mk))]]_vars

(***************************************************************************)
(* Concurrent updates of one mint pool on the ledger of section 5.  The    *)
(* three handlers that change Token.minted are simulated against the       *)
(* committed state and committed later unless a key they read has been     *)
(* written in between; requests are resubmitted in between.  The state at  *)
(* the start has token_1 owned by the participant, a customer registered   *)
(* and approved for it, a participant mint request and a customer mint     *)
(* request waiting, and a transfer pending the receiver's approval; the    *)
(* pool holds 0, or 1 from a mint approved before.                         *)
(***************************************************************************)
PoolOps == {"ApproveMintRequest", "ApproveCustomerMint", "ApproveTransferByReceiver"}

(* the handler a pool transaction runs, with the caller it needs *)
PoolUpdate(l, op, id) ==
  LET owner == CHOOSE a \in MintAddresses : TRUE IN
  IF op = "ApproveMintRequest" THEN ApproveMintRequest(l, AdminMSP, id)
  ELSE IF op = "ApproveCustomerMint" THEN ApproveCustomerMint(l, id, owner)
  ELSE ApproveTransferByReceiver(l, id, owner)

(* mutation: the token is read without entering the read set *)
PoolUpdateReads_RequestOnly(l, op, id) == {id}

(* the keys the handler passes to GetState: the request and the token it   *)
(* names, then the customer's wallet or the sender's balance               *)
PoolUpdateReads(l, op, id) ==
  IF op = "ApproveMintRequest" THEN {id, AsMintRequest(l, id).token_id}
  ELSE IF op = "ApproveCustomerMint"
       THEN {id, AsMintRequest(l, id).token_id, CustomerKeyOf(AsMintRequest(l, id))}
  ELSE {id, AsTransfer(l, id).token_id, AsTransfer(l, id).sender_transfer_id}

(* the keys the handler passes to PutState when it succeeds *)
PoolUpdateWrites(l, op, id) ==
  IF op = "ApproveMintRequest" THEN {id, AsMintRequest(l, id).token_id}
  ELSE IF op = "ApproveCustomerMint"
       THEN {id, AsMintRequest(l, id).token_id, CustomerKeyOf(AsMintRequest(l, id))}
  ELSE {AsTransfer(l, id).sender_transfer_id, AsTransfer(l, id).token_id, id}

InitPoolMVCC ==
  /\ \E a \in MintAddresses, c \in CustomerAddresses, b \in SeedBalances,
        c1 \in RegistrantIDs, minted \in BOOLEAN :
       LET l0 == Allocated(InitLedger(SeededState([k \in BalanceKeys |-> b])).st,
                           MintNames)
           l1 == RegisterCustomer(l0, c, CustomerName, CustomerPassword,
                                  TokenKey(1)).st
           l2 == ApproveCustomerRegistration(
                   l1, CustomerRequestID(c, TokenKey(1)), a).st
           l3 == RequestMintCoins(l2, c1, a, RegPassword, 1).st
           l4 == IF minted
                 THEN RequestMintCoins(
                        ApproveMintRequest(
                          l3, AdminMSP, CHOOSE k \in MintRequestKeys : TRUE).st,
                        c1, a, RegPassword, 1).st
                 ELSE l3
           l5 == CustomerRequestMint(l4, c, TokenKey(1), 1).st
           l6 == CreateTransferRequest(l5, UuidOf(1),
                   CHOOSE k \in BalanceKeys : TRUE,
                   CHOOSE k \in ReceiverRefs : TRUE, "", "", TokenKey(1),
                   <<"1", ".", "5">>).st
       IN ledger = ApproveTransferByOwner(
                     l6, "transfer_" \o UuidOf(1),
                     CHOOSE k \in BalanceKeys : TRUE).st
  /\ nextUuid = 2
  /\ last = [op |-> "", arg |-> "", err |-> ""]
  /\ pending = {}

(* a request stored again by its requester, committed at once *)
MvccMintRequestAct ==
  \E a \in MintAddresses, c \in CustomerAddresses, c1 \in RegistrantIDs,
     byCustomer \in BOOLEAN :
    LET r == IF byCustomer THEN CustomerRequestMint(ledger, c, TokenKey(1), 1)
             ELSE RequestMintCoins(ledger, c1, a, RegPassword, 1)
        written == {k \in DOMAIN r.st : k \notin DOMAIN ledger \/ r.st[k] # ledger[k]}
    IN
    /\ r.err = ""
    /\ written # {}
    /\ Bounded(r.st)
    /\ ledger' = r.st
    /\ pending' = Invalidated(pending, written)
    /\ last' = Recorded(IF byCustomer THEN "CustomerRequestMint"
                        ELSE "RequestMintCoins", "", r)
    /\ UNCHANGED nextUuid

SimulatePoolUpdateAct ==
  \E op \in PoolOps,
     id \in MintRequestKeys \cup CustomerMintKeys \cup TransferKeys :
    LET r == PoolUpdate(ledger, op, id)
        written == PoolUpdateWrites(ledger, op, id)
    IN
    /\ Cardinality(pending) < MaxInFlight
    /\ r.err = ""
    /\ Bounded(r.st)
    /\ pending' = pending \cup
                    {[op |-> op,
                      addr |-> id,
                      reads |-> PoolUpdateReads(ledger, op, id),
                      writes |-> [k \in written |-> r.st[k]],
                      stale |-> FALSE]}
    /\ last' = [op |-> "Simulate", arg |-> id, err |-> ""]
    /\ UNCHANGED <<ledger, nextUuid>>

NextPoolMVCC ==
  \/ MvccMintRequestAct
  \/ SimulatePoolUpdateAct
  \/ CommitAct

SpecPoolMVCC == InitPoolMVCC /\ [][NextPoolMVCC]_vars

(* C40: when transactions that update the same token's mint pool are       *)
(* simulated from the same snapshot, under the ledger's read-set           *)
(* validation no update is lost and the pool is never spent below what a   *)
(* serial order allows: every commit that is accepted leaves exactly the   *)
(* state that running its handler on the committed state would leave, and  *)
(* that run succeeds; a rejected commit leaves the state as it was; the    *)
(* pool and the customer balances never go below zero.                     *)
C40_CommitsSerialisable ==
  /\ [](\A k \in DOMAIN ledger :
          /\ Member(ledger[k], "minted") >= 0
          /\ Member(ledger[k], "balance") >= 0)
  /\ [][last'.op = "Commit" =>
          IF last'.err = ""
          THEN \E tx \in pending \ pending' :
                 /\ tx.addr = last'.arg
                 /\ ~tx.stale
                 /\ PoolUpdate(ledger, tx.op, tx.addr).err = ""
                 /\ ledger' = PoolUpdate(ledger, tx.op, tx.addr).st
          ELSE ledger' = ledger]_vars

C40_Witness ==
  /\ last.op = "Commit"
  /\ last.err = "MVCC_READ_CONFLICT"
  /\ last.arg \in CustomerMintKeys
  /\ ~AsMintRequest(ledger, last.arg).approved
  /\ \E k \in MintRequestKeys \cap DOMAIN ledger :
       AsMintRequest(ledger, k).approved
  /\ \E k \in TransferKeys \cap DOMAIN ledger : Status(ledger, k) = "Completed"

====
